---- MODULE Spec2Model ----
(***************************************************************************)
(* Run engine of the agent orchestrator (services/orchestrator/app):       *)
(* one task row with its step and approval rows, the in-memory ask-once    *)
(* grants, the background workers of the classic engine (run_task) and of  *)
(* the agent-loop engine (_run_task_uak), and the boundary calls that act  *)
(* on the task (create, start, cancel, approve, continue).                 *)
(*                                                                         *)
(* Every store access of a worker is its own step, so that the boundary    *)
(* calls and the other workers interleave with it as threads do; a         *)
(* boundary call is one step.                                              *)
(***************************************************************************)
EXTENDS Integers, Sequences, FiniteSets, TLC

\* ------------------------------------------------------------------ bounds
MaxRows == 2         \* steps rows, and approvals rows, of one task
MaxSchedThreads == 2 \* SchedulerThread objects ever made
MaxSchedules == 2    \* schedules rows
MaxClock == 2        \* minutes the wall clock advances
MaxWorkers == 2      \* worker threads alive at the same time
MaxCalls == 2        \* boundary calls after createTask
MaxPlanLen == 2      \* steps of a Planner plan
MaxSteps == 27       \* step rows ever inserted for the task
MaxRestarts == 1     \* process restarts
MaxPatches == 1      \* plan patches the Executor proposes
SeqMod == 3          \* task_update events are counted modulo SeqMod
MaxTasks == 2        \* tasks rows the event log refers to
MaxChanges == 2      \* store writes made through _update_task, _update_step, _apply_patch
MaxSubs == 2         \* subscribers of the event bus
MaxEmits == 2        \* calls of emit followed statement by statement

\* ------------------------------------------------- program constants/tables
max_critic_iters == 3

\* main.py 1453: n = max(1, min(int(limit), 2000))
max_limit == 2000

\* events.py 24: queue.Queue() is made with maxsize 0: no limit
queue_maxsize == 0

Tools == {"filesystem.write_text", "shell.exec", "filesystem.read_text", "web.fetch",
          "mcp/server/tool"}

POLICIES == {"ask_once", "always_allow", "always_deny"}

Terminal == {"succeeded", "failed", "canceled"}

scope_for_tool(t) ==
  CASE t = "shell.exec" -> "shell"
    [] t = "ppt.render" -> "fs_write"
    [] t \in {"filesystem.list", "filesystem.read_text", "filesystem.stat"} -> "fs_read"
    [] t \in {"filesystem.write_text", "filesystem.mkdir", "filesystem.move"} -> "fs_write"
    [] t = "filesystem.delete" -> "fs_delete"
    [] t = "browser.click" -> "browser_click"
    [] t \in {"web.search", "web.fetch"} -> "network"
    [] t \in {"browser.open", "browser.extract", "browser.screenshot"} -> "network"
    [] t = "mcp/server/tool" -> "mcp"
    [] OTHER -> "other"

Scopes == {scope_for_tool(t) : t \in Tools}

\* settings.require_approval_*: the defaults of config.py
require_approval_shell == TRUE
require_approval_fs_write == TRUE
require_approval_fs_delete == TRUE
require_approval_browser_click == TRUE

\* ToolSpec.risky of the registered tools that _tool_requires_approval reaches
risky(t) == t \in {"media.image_edit", "media.video_remix", "kb.ingest"}

\* tools/base.py _REGISTRY: the built-in tools; MCP tools exist only in the
\* agent-loop runtime
registered(t) == t \notin {"unknown.tool", "mcp/server/tool"}

_tool_requires_approval(t) ==
  IF t = "shell.exec" THEN require_approval_shell
  ELSE IF t \in {"filesystem.write_text", "filesystem.mkdir", "filesystem.move"}
       THEN require_approval_fs_write
  ELSE IF t = "filesystem.delete" THEN require_approval_fs_delete
  ELSE IF t = "browser.click" THEN require_approval_browser_click
  ELSE IF registered(t) THEN risky(t) ELSE TRUE

\* ------------------------------------------------------------------- state
VARIABLES
  task,        \* the tasks row
  steps,       \* the steps rows of the task, in rowid order
  approvals,   \* the approvals rows of the task, in rowid order
  policy,      \* workspace_policies of the task's workspace: scope -> policy or "none"
  env,         \* what the surroundings answer: backend preference, LLM replies, tool outcomes
  grants,      \* _ASK_ONCE_GRANTS[task_id]: the scopes granted (in memory)
  workers,     \* the worker threads
  tool_runs,   \* step id -> number of run_tool calls made for the step
  task_update_seq, \* number of task_update events emitted, modulo SeqMod
  now,         \* the last value of _now() handed out
  next_id,     \* number of step rows inserted so far (ids are 1..next_id)
  uak_running, \* _UAK_RUNNING[task_id]: the registered agent-loop worker, or 0
  uak_rt,      \* the agent-loop runtime's own store: its open interrupt, if any
  calls,       \* boundary calls made
  patches,     \* plan patches the Executor has proposed
  restarts,    \* process restarts so far
  critic_calls, \* critic_review calls made for the task
  planner_calls, \* LLM calls generate_plan has made for the task
  task_ids,    \* ids of the tasks rows the event log refers to (its foreign key)
  event_log,   \* the event_log rows: rowid (seq), task_id, type, the change reported
  changes,     \* the store writes of _update_task, _update_step, _apply_patch so far
  bus,         \* events.py _subscribers: each subscriber's queue
  updaters,    \* threads inside _update_task, _update_step or _apply_patch
  reader,      \* a client paging through GET /api/tasks/{id}/events
  clock,       \* the UTC wall clock, in whole minutes
  schedules,   \* the schedules rows, in rowid order
  sched_tasks, \* the tasks rows tick_once has made
  _scheduler,  \* scheduler.py _scheduler: the registered SchedulerThread, or 0
  sched,       \* the SchedulerThread objects ever made
  cron_call,   \* a call of Cron.parse(expr).next_after(after)
  children,    \* the steps and approvals rows that refer to the tasks rows of task_ids
  last_write,  \* the last store write made under contention, and how it ended
  _subscribers, \* events.py _subscribers: the list of subscribed queues
  queues,      \* the queue.Queue objects subscribe() has made
  emitters,    \* threads inside emit(), after the snapshot of _subscribers
  emitted      \* calls of emit() begun

\* The event log and the event bus
event_vars == <<task_ids, event_log, changes, bus, updaters, reader>>

\* The scheduler and its cron expressions
sched_vars == <<clock, schedules, sched_tasks, _scheduler, sched, cron_call>>

\* The rows that hang on a tasks row, and the writes that met a busy store
store_vars == <<children, last_write>>

\* The event bus, statement by statement
fan_vars == <<_subscribers, queues, emitters, emitted>>

\* The components beside the run engine
aux_vars == <<event_vars, sched_vars, store_vars, fan_vars>>

\* The run engine
engine_vars == <<task, steps, approvals, policy, env, grants, workers, tool_runs,
                 task_update_seq, now, next_id, uak_running, uak_rt, calls, patches, restarts,
                 critic_calls, planner_calls>>

vars == <<task, steps, approvals, policy, env, grants, workers, tool_runs,
          task_update_seq, now, next_id, uak_running, uak_rt, calls, patches, restarts,
          critic_calls, planner_calls, aux_vars>>

WorkerIds == 1..MaxWorkers
StepIds == 1..MaxSteps

NoTask == [status |-> "none", backend |-> "", plan |-> FALSE, current_step |-> 0,
           error |-> "", output_path |-> FALSE, interrupt |-> FALSE, run_id |-> FALSE]

IdleWorker == [pc |-> "idle", kind |-> "none", resume |-> "none", steps |-> <<>>,
               idx |-> 0, critic_iter |-> 0, plan |-> <<>>, cancel |-> FALSE,
               t_interrupt |-> FALSE, t_run_id |-> FALSE, out |-> ""]

\* The runtime has no interrupt waiting for a decision.
NoInterrupt == [open |-> FALSE, tool |-> "", step |-> 0]

\* A step of a plan or patch as the LLM returns it.
StepSpecs == {[tool |-> "filesystem.write_text", requires_approval |-> FALSE],
              [tool |-> "shell.exec", requires_approval |-> FALSE],
              [tool |-> "filesystem.read_text", requires_approval |-> FALSE],
              [tool |-> "filesystem.read_text", requires_approval |-> TRUE],
              [tool |-> "web.fetch", requires_approval |-> FALSE],
              [tool |-> "mcp/server/tool", requires_approval |-> FALSE]}

Plans == UNION {[1..n -> StepSpecs] : n \in 1..MaxPlanLen}

\* Workspace policies: at most one scope has a row.
PolicyMaps == {[s \in Scopes |-> "none"]} \cup
              {[s \in Scopes |-> IF s = k THEN p ELSE "none"] : k \in Scopes, p \in POLICIES}

\* A step as the Planner's JSON spells it: a dict that may lack keys.
StepDict(s) == [tool |-> s.tool, args |-> "{}", requires_approval |-> s.requires_approval]
NoArgsStep == [tool |-> "filesystem.read_text"]
NoToolStep == [args |-> "{}"]
BareStep == [tool |-> "filesystem.read_text", args |-> "{}"]
StepDicts == {StepDict(s) : s \in StepSpecs} \cup {NoArgsStep, NoToolStep, BareStep}

\* An answer of the LLM to the Planner: text that holds a JSON object or not,
\* and the object; "steps", when present, is a list or something else.
ListReply(items) == [json |-> TRUE, plan |-> [steps |-> [list |-> TRUE, items |-> items]]]
Reply(plan) == ListReply([i \in DOMAIN plan |-> StepDict(plan[i])])
Garbage == [json |-> FALSE, plan |-> [summary |-> ""]]
NoStepsReply == [json |-> TRUE, plan |-> [summary |-> "Run"]]
NotListReply == [json |-> TRUE, plan |-> [steps |-> [list |-> FALSE, items |-> <<>>]]]
Replies == {Garbage, NoStepsReply, NotListReply} \cup
           {ListReply(items) : items \in UNION {[1..n -> StepDicts] : n \in 0..MaxPlanLen}}

\* planner.py 17-26: the JSON object in the text, or an exception
_extract_json(reply) == [raised |-> ~reply.json, plan |-> reply.plan]

\* generate_plan without the allowed_tools test
generate_plan_any_tool(replies, allowed_tools) ==
  LET first == _extract_json(replies[1])
      parsed == IF first.raised THEN _extract_json(replies[2]) ELSE first
      n_calls == IF first.raised THEN 2 ELSE 1
      plan == parsed.plan
      bad_steps == \/ "steps" \notin DOMAIN plan
                   \/ ~plan.steps.list
                   \/ Len(plan.steps.items) = 0
      bad_step(s) == \/ "tool" \notin DOMAIN s
                     \/ "args" \notin DOMAIN s
      Raise == [calls |-> n_calls, raised |-> TRUE, steps |-> <<>>]
  IN  IF parsed.raised THEN Raise
      ELSE IF bad_steps THEN Raise
      ELSE IF \E i \in DOMAIN plan.steps.items : bad_step(plan.steps.items[i]) THEN Raise
      ELSE [calls |-> n_calls, raised |-> FALSE,
            steps |-> [i \in DOMAIN plan.steps.items |->
                        LET s == plan.steps.items[i]
                        IN  [tool |-> s.tool,
                             requires_approval |-> IF "requires_approval" \in DOMAIN s
                                                   THEN s.requires_approval ELSE FALSE]]]

\* planner.py 29-84: one LLM call, a repair call when the answer does not
\* parse, then validation. calls: LLM calls made; raised: an exception leaves
\* generate_plan; steps: the steps of the plan returned.
generate_plan(replies, allowed_tools) ==
  LET first == _extract_json(replies[1])
      parsed == IF first.raised THEN _extract_json(replies[2]) ELSE first
      n_calls == IF first.raised THEN 2 ELSE 1
      plan == parsed.plan
      bad_steps == \/ "steps" \notin DOMAIN plan
                   \/ ~plan.steps.list
                   \/ Len(plan.steps.items) = 0
      bad_step(s) == \/ "tool" \notin DOMAIN s
                     \/ "args" \notin DOMAIN s
                     \/ allowed_tools # {} /\ s.tool \notin allowed_tools
      Raise == [calls |-> n_calls, raised |-> TRUE, steps |-> <<>>]
  IN  IF parsed.raised THEN Raise
      ELSE IF bad_steps THEN Raise
      ELSE IF \E i \in DOMAIN plan.steps.items : bad_step(plan.steps.items[i]) THEN Raise
      ELSE [calls |-> n_calls, raised |-> FALSE,
            steps |-> [i \in DOMAIN plan.steps.items |->
                        LET s == plan.steps.items[i]
                        IN  [tool |-> s.tool,
                             requires_approval |-> IF "requires_approval" \in DOMAIN s
                                                   THEN s.requires_approval ELSE FALSE]]]

\* One added step that reads, one that writes.
FixStep == <<[tool |-> "filesystem.read_text", requires_approval |-> FALSE]>>
FixWrite == <<[tool |-> "filesystem.write_text", requires_approval |-> FALSE]>>

\* The surroundings of one run:
\*   backend   OWB_AGENT_BACKEND, or whether the agent-loop runtime is installed
\*   replies   what the LLM answers to the Planner's call and to its repair call
\*   allowed_tools  the skill's allowed_tools ({}: every tool)
\*   tool_raises  whether a tool handler may raise
\*   verdicts  what critic_review may answer: "ok", "nofix", "fix", "raise"
\*   executor  whether propose_patch may return a patch
\*   loop      how a turn of the agent loop may end: "done", "empty" (no
\*             output), "error", "guardrail", or "tool" (it calls loop_tool, for
\*             which the runtime's own policy engine says loop_base)
\*   fix_steps  the fix_steps of a Critic that answers "fix"
\*   long_patch  whether the Executor may answer with more steps than its
\*             prompt allows
Envs == [backend : {"classic", "uak"}, replies : [1..2 -> Replies],
         allowed_tools : SUBSET Tools, tool_raises : BOOLEAN,
         verdicts : (SUBSET {"ok", "nofix", "fix", "raise"}) \ {{}}, executor : BOOLEAN,
         loop : (SUBSET {"done", "empty", "error", "guardrail", "tool"}) \ {{}},
         loop_tool : Tools, loop_base : {"auto", "require_approval"}, long_patch : BOOLEAN,
         fix_steps : {FixStep, FixWrite}]

TaskIds == 1..MaxTasks
SubIds == 1..MaxSubs
UpdaterIds == 1..MaxWorkers

\* No thread is inside an update; no page has been fetched.
IdleUpdater == [pc |-> "idle", kind |-> "none", task |-> 0, change |-> 0, task_id |-> 0]
NoReader == [pc |-> "start", task |-> 0, tail |-> FALSE, page1 |-> <<>>, cursor |-> 0,
             page2 |-> <<>>, log1 |-> {}]

\* task_ids[t]: whether the tasks row t was never made, is there, or was deleted;
\* last_seq: the greatest rowid an event_log row of the task ever got
EventInit ==
  /\ task_ids = [t \in TaskIds |-> [row |-> "none", last_seq |-> 0]]
  /\ event_log = {}
  /\ changes = <<>>
  /\ bus = [s \in SubIds |-> [on |-> FALSE, q |-> <<>>]]
  /\ updaters = [u \in UpdaterIds |-> IdleUpdater]
  /\ reader = NoReader

SchedIds == 1..MaxSchedThreads

\* A NULL next_run_at or last_run_at (db.py: the columns are nullable)
NULL == -1

NoCron == [err |-> "none", minutes |-> {}, hours |-> {}, dom |-> {}, months |-> {}, dow |-> {}]

\* A SchedulerThread not made yet; no call of next_after made yet.
NoSched == [state |-> "none", stop |-> FALSE, pc |-> "run", now |-> 0, rows |-> <<>>,
            i |-> 0, after |-> 0, ret |-> "first", cron |-> NoCron, t |-> 0]
NoCall == [pc |-> "idle", expr |-> <<>>, after |-> [min |-> 0, sec |-> 0], cron |-> NoCron,
           t |-> 0, result |-> [kind |-> "none", t |-> 0]]

SchedInit ==
  /\ clock = 0
  /\ schedules = <<>>
  /\ sched_tasks = <<>>
  /\ _scheduler = 0
  /\ sched = [th \in SchedIds |-> NoSched]
  /\ cron_call = NoCall

\* No write made yet
NoWrite == [kind |-> "none", attempts |-> 0, busy |-> 0, committed |-> FALSE,
            raised |-> "none", status |-> 0]

StoreInit ==
  /\ children = {}
  /\ last_write = NoWrite

\* No queue made, nobody subscribed, no thread inside emit.
NoQueue == [made |-> FALSE, left |-> FALSE, items |-> <<>>, late |-> 0, inflight |-> {}]
IdleEmitter == [pc |-> "idle", ev |-> 0, subs |-> <<>>, held |-> {}, puts |-> [q \in SubIds |-> 0]]

FanInit ==
  /\ _subscribers = <<>>
  /\ queues = [q \in SubIds |-> NoQueue]
  /\ emitters = [e \in UpdaterIds |-> IdleEmitter]
  /\ emitted = 0

AuxInit == EventInit /\ SchedInit /\ StoreInit /\ FanInit

Init ==
  /\ AuxInit
  /\ task = NoTask
  /\ steps = <<>>
  /\ approvals = <<>>
  /\ policy \in PolicyMaps
  /\ env \in Envs
  /\ grants = {}
  /\ workers = [w \in WorkerIds |-> IdleWorker]
  /\ tool_runs = [s \in StepIds |-> 0]
  /\ task_update_seq = 0
  /\ now = 0
  /\ next_id = 0
  /\ uak_running = 0
  /\ uak_rt = NoInterrupt
  /\ calls = 0
  /\ patches = 0
  /\ restarts = 0
  /\ critic_calls = 0
  /\ planner_calls = 0

\* ----------------------------------------------------------- store helpers
Range(s) == {s[i] : i \in DOMAIN s}

\* ORDER BY idx ASC over the rows in rowid order (stable insertion sort)
RECURSIVE InsertByIdx(_, _)
InsertByIdx(sorted, r) ==
  IF sorted = <<>> THEN <<r>>
  ELSE IF sorted[Len(sorted)].idx <= r.idx THEN Append(sorted, r)
  ELSE Append(InsertByIdx(SubSeq(sorted, 1, Len(sorted) - 1), r), sorted[Len(sorted)])

RECURSIVE SortByIdx(_)
SortByIdx(rows) ==
  IF rows = <<>> THEN <<>>
  ELSE InsertByIdx(SortByIdx(SubSeq(rows, 1, Len(rows) - 1)), rows[Len(rows)])

_load_steps == SortByIdx(steps)

\* UPDATE steps SET ... WHERE id=sid, applied to a steps table
SetStep(tbl, sid, fields) ==
  [i \in DOMAIN tbl |->
     IF tbl[i].id = sid
     THEN [k \in DOMAIN tbl[i] |-> IF k \in DOMAIN fields THEN fields[k] ELSE tbl[i][k]]
     ELSE tbl[i]]

StepExists(sid) == \E i \in DOMAIN steps : steps[i].id = sid
StepRow(sid) == steps[CHOOSE i \in DOMAIN steps : steps[i].id = sid]

\* Rows of approvals for a step that "ORDER BY requested_at DESC LIMIT 1" may return
LatestApprovals(tbl, sid) ==
  {i \in DOMAIN tbl :
     /\ tbl[i].step_id = sid
     /\ \A j \in DOMAIN tbl : tbl[j].step_id = sid => tbl[j].requested_at <= tbl[i].requested_at}

\* the approval rows of a step
ApprovalRows(sid) == {a \in DOMAIN approvals : approvals[a].step_id = sid}

_is_task_canceled == task.status = "canceled"

get_workspace_policy(scope) == IF policy[scope] \in POLICIES THEN policy[scope] ELSE "none"

is_ask_once_scope_granted(scope) == scope \in grants

\* A grant that is not recorded.
grant_ask_once_scope_dropped(g, scope) == g

\* grant_ask_once_scope(task_id, scope): the grants it leaves
grant_ask_once_scope(g, scope) == g \cup {scope}

\* _update_task counts one task_update event
Bump(n) == (task_update_seq + n) % SeqMod

\* ------------------------------------------------------- launching workers
HasFree(ws) == \E w \in WorkerIds : ws[w].pc = "idle"
FreeSlot(ws) == CHOOSE w \in WorkerIds : ws[w].pc = "idle" /\ \A v \in WorkerIds : ws[v].pc = "idle" => w <= v

\* threading.Thread(target=..., daemon=True).start()
Spawn(ws, kind, resume) ==
  [ws EXCEPT ![FreeSlot(ws)] =
     [IdleWorker EXCEPT !.pc = IF kind = "classic" THEN "rt_load" ELSE "bg_start",
                        !.kind = kind, !.resume = resume]]

\* start_task_background that also returns for a task already running.
start_refused_when_running(status) == status \in {"canceled", "running"}

\* The status test that makes start_task_background return without a thread.
start_refused(status) == status = "canceled"

\* start_task_background(task_id), acting on the row tk after n task_update
\* events of the calling handler.
start_task_background(tk, n) ==
  IF start_refused(tk.status)
  THEN /\ task' = tk
       /\ workers' = workers
       /\ task_update_seq' = Bump(n)
  ELSE LET known == tk.backend \in {"classic", "uak"}
           backend == IF known THEN tk.backend ELSE env.backend
       IN /\ HasFree(workers)
          /\ task' = [tk EXCEPT !.backend = backend]
          /\ workers' = Spawn(workers, IF backend = "uak" THEN "uak_run" ELSE "classic", "none")
          /\ task_update_seq' = Bump(n + (IF known THEN 0 ELSE 1))

\* --------------------------------------------------------- boundary calls
\* POST /api/tasks: create_task then start_task_background
api_create_task ==
  /\ task.status = "none"
  /\ start_task_background([NoTask EXCEPT !.status = "queued"], 0)
  /\ UNCHANGED <<steps, approvals, policy, env, grants, tool_runs, now, next_id,
                 uak_running, uak_rt, calls, patches, restarts, critic_calls, planner_calls,
                 aux_vars>>

\* POST /api/tasks/{id}/start
api_start_task ==
  /\ task.status # "none"
  /\ calls < MaxCalls
  /\ calls' = calls + 1
  /\ start_task_background(task, 0)
  /\ UNCHANGED <<steps, approvals, policy, env, grants, tool_runs, now, next_id,
                 uak_running, uak_rt, patches, restarts, critic_calls, planner_calls,
                 aux_vars>>

\* The statuses in which cancel_task returns without writing.
cancel_is_noop(status) == status \in {"succeeded", "failed", "canceled"}

\* cancel_task(task_id); for the agent-loop backend cancel_uak_task schedules
\* task.cancel on the registered worker's loop. A call that returns without
\* writing (unknown or finished task) is no step.
cancel_task ==
  /\ task.status # "none"
  /\ IF cancel_is_noop(task.status)
     THEN FALSE
     ELSE /\ task' = [task EXCEPT !.status = "canceled", !.error = "canceled", !.interrupt = FALSE]
          /\ task_update_seq' = Bump(1)
          /\ workers' = IF task.backend = "uak" /\ uak_running # 0
                        THEN [workers EXCEPT ![uak_running].cancel = TRUE]
                        ELSE workers

\* POST /api/tasks/{id}/cancel
api_cancel_task ==
  /\ calls < MaxCalls
  /\ calls' = calls + 1
  /\ cancel_task
  /\ UNCHANGED <<steps, approvals, policy, env, grants, tool_runs, now, next_id,
                 uak_running, uak_rt, patches, restarts, critic_calls, planner_calls,
                 aux_vars>>

\* UPDATE approvals SET status=... WHERE id=(latest row of the step): the tables
\* the statement can leave (one, or several when requested_at ties).
DecidedApprovals(sid, status) ==
  IF LatestApprovals(approvals, sid) = {} THEN {approvals}
  ELSE {[approvals EXCEPT ![a].status = status] : a \in LatestApprovals(approvals, sid)}

\* approve_step(task_id, step_id, decision, reason)
approve_step(sid, decision) ==
  LET status == IF decision = "approve" THEN "approved" ELSE "rejected" IN
  /\ approvals' \in DecidedApprovals(sid, status)
  /\ IF status = "approved"
     THEN /\ grants' = IF StepExists(sid)
                       THEN grant_ask_once_scope(grants, scope_for_tool(StepRow(sid).tool))
                       ELSE grants
          /\ steps' = steps
          /\ IF task.backend = "uak"
             THEN /\ HasFree(workers)
                  /\ task' = [task EXCEPT !.status = "running"]
                  /\ task_update_seq' = Bump(1)
                  /\ workers' = Spawn(workers, "uak_resume", "approve")
             ELSE start_task_background([task EXCEPT !.status = "running"], 1)
     ELSE /\ grants' = grants
          /\ steps' = SetStep(steps, sid, [status |-> "failed", error |-> "rejected"])
          /\ task_update_seq' = Bump(1)
          /\ IF task.backend = "uak"
             THEN /\ HasFree(workers)
                  /\ task' = [task EXCEPT !.status = "running", !.error = ""]
                  /\ workers' = Spawn(workers, "uak_resume", "reject")
             ELSE /\ task' = [task EXCEPT !.status = "failed", !.error = "rejected"]
                  /\ workers' = workers

\* POST /api/tasks/{id}/approve/{step_id}
api_approve(sid, decision) ==
  /\ task.status # "none"
  /\ calls < MaxCalls
  /\ calls' = calls + 1
  /\ approve_step(sid, decision)
  /\ UNCHANGED <<policy, env, tool_runs, now, next_id, uak_running, uak_rt, patches, restarts, critic_calls, planner_calls,
                 aux_vars>>

\* The pending approval rows api_task_continue's query may return
\* (status='pending' ORDER BY requested_at DESC LIMIT 1).
LatestPending ==
  {i \in DOMAIN approvals :
     /\ approvals[i].status = "pending"
     /\ \A j \in DOMAIN approvals :
          approvals[j].status = "pending" => approvals[j].requested_at <= approvals[i].requested_at}

\* _parse_approval_decision of api_task_continue
_parse_approval_decision(msg) ==
  IF msg \in {"reject", "no", "deny"} THEN "reject"
  ELSE IF msg \in {"approve", "yes", "ok"} THEN "approve"
  ELSE "none"

\* POST /api/tasks/{id}/continue: an approval decision while waiting_approval,
\* a new user turn for a finished agent-loop task; every other case is an
\* HTTP error that changes nothing.
api_task_continue(msg) ==
  /\ task.status # "none"
  /\ calls < MaxCalls
  /\ calls' = calls + 1
  /\ IF task.status = "waiting_approval"
     THEN /\ _parse_approval_decision(msg) # "none"
          /\ \E a \in LatestPending : approve_step(approvals[a].step_id, _parse_approval_decision(msg))
     ELSE /\ task.status \notin {"queued", "planning", "running"}
          /\ task.backend = "uak"
          /\ HasFree(workers)
          /\ workers' = Spawn(workers, "uak_continue", "none")
          /\ UNCHANGED <<task, steps, approvals, grants, task_update_seq>>
  /\ UNCHANGED <<policy, env, tool_runs, now, next_id, uak_running, uak_rt, patches, restarts, critic_calls, planner_calls,
                 aux_vars>>

\* ------------------------------------------------- classic engine: run_task
Goto(w, pc) == [workers EXCEPT ![w].pc = pc]
Finish(w) == [workers EXCEPT ![w] = IdleWorker]

\* the step row steps[idx] of the worker's loaded list
CurStep(w) == workers[w].steps[workers[w].idx + 1]

\* _insert_steps(task_id, specs, start_idx): the new rows
NewRows(specs, start_idx) ==
  [i \in 1..Len(specs) |->
     [id |-> next_id + i, idx |-> start_idx + i - 1, tool |-> specs[i].tool,
      status |-> "pending", requires_approval |-> specs[i].requires_approval, error |-> ""]]

\* What a cancellation checkpoint reads (_is_task_canceled).
checkpoint_canceled(status) == status = "canceled"

\* A checkpoint "if _is_task_canceled(task_id): return", then on to pc.
Checkpoint(w, from, to) ==
  /\ workers[w].pc = from
  /\ workers' = IF checkpoint_canceled(task.status) THEN Finish(w) ELSE Goto(w, to)
  /\ UNCHANGED <<task, steps, approvals, policy, env, grants, tool_runs,
                 task_update_seq, now, next_id, uak_running, uak_rt, calls, patches, restarts, critic_calls, planner_calls,
                 aux_vars>>

\* _update_task(task_id, **fields) by worker w, then on to pc ("" ends the worker)
WorkerUpdateTask(w, from, tk, to) ==
  /\ workers[w].pc = from
  /\ task' = tk
  /\ task_update_seq' = Bump(1)
  /\ workers' = IF to = "" THEN Finish(w) ELSE Goto(w, to)
  /\ UNCHANGED <<steps, approvals, policy, env, grants, tool_runs, now, next_id,
                 uak_running, uak_rt, calls, patches, restarts, critic_calls, planner_calls,
                 aux_vars>>

\* _update_step(step["id"], **fields) on the current step of worker w
WorkerUpdateStep(w, from, fields, to) ==
  /\ workers[w].pc = from
  /\ steps' = SetStep(steps, CurStep(w).id, fields)
  /\ workers' = Goto(w, to)
  /\ UNCHANGED <<task, approvals, policy, env, grants, tool_runs, task_update_seq,
                 now, next_id, uak_running, uak_rt, calls, patches, restarts, critic_calls, planner_calls,
                 aux_vars>>

\* engine.py 348-364: load the task; return when canceled; plan or resume
rt_load(w) ==
  /\ workers[w].pc = "rt_load"
  /\ workers' = IF task.status = "canceled" THEN Finish(w)
                ELSE Goto(w, IF task.plan THEN "rt_resume_chk" ELSE "rt_plan_chk")
  /\ UNCHANGED <<task, steps, approvals, policy, env, grants, tool_runs,
                 task_update_seq, now, next_id, uak_running, uak_rt, calls, patches, restarts, critic_calls, planner_calls,
                 aux_vars>>

\* 365
rt_plan_chk(w) == Checkpoint(w, "rt_plan_chk", "rt_plan_set")

\* 367-368: status=planning, then generate_plan returns a plan or raises
rt_plan_set(w) ==
  LET g == generate_plan(env.replies, env.allowed_tools)
  IN  /\ workers[w].pc = "rt_plan_set"
      /\ task' = [task EXCEPT !.status = "planning"]
      /\ task_update_seq' = Bump(1)
      /\ planner_calls' = planner_calls + g.calls
      /\ workers' = IF g.raised THEN Goto(w, "rt_exc_chk")
                    ELSE [workers EXCEPT ![w].pc = "rt_plan_save", ![w].plan = g.steps]
      /\ UNCHANGED <<steps, approvals, policy, env, grants, tool_runs, now, next_id,
                     uak_running, uak_rt, calls, patches, restarts, critic_calls,
                 aux_vars>>

\* 369
rt_plan_save(w) == WorkerUpdateTask(w, "rt_plan_save", [task EXCEPT !.plan = TRUE], "rt_plan_del")

\* 371: DELETE FROM steps WHERE task_id=? (approvals go with their steps: ON DELETE CASCADE)
rt_plan_del(w) ==
  /\ workers[w].pc = "rt_plan_del"
  /\ steps' = <<>>
  /\ approvals' = <<>>
  /\ workers' = Goto(w, "rt_plan_ins")
  /\ UNCHANGED <<task, policy, env, grants, tool_runs, task_update_seq, now,
                 next_id, uak_running, uak_rt, calls, patches, restarts, critic_calls, planner_calls,
                 aux_vars>>

\* 372: _insert_steps(task_id, plan["steps"], start_idx=0)
rt_plan_ins(w) ==
  /\ workers[w].pc = "rt_plan_ins"
  /\ next_id + Len(workers[w].plan) <= MaxSteps
  /\ steps' = steps \o NewRows(workers[w].plan, 0)
  /\ next_id' = next_id + Len(workers[w].plan)
  /\ workers' = [workers EXCEPT ![w].pc = "rt_plan_chk2", ![w].plan = <<>>]
  /\ UNCHANGED <<task, approvals, policy, env, grants, tool_runs, task_update_seq,
                 now, uak_running, uak_rt, calls, patches, restarts, critic_calls, planner_calls,
                 aux_vars>>

\* 373
rt_plan_chk2(w) == Checkpoint(w, "rt_plan_chk2", "rt_plan_run")

\* 375
rt_plan_run(w) ==
  WorkerUpdateTask(w, "rt_plan_run", [task EXCEPT !.status = "running", !.current_step = 0], "rt_iter")

\* 377
rt_resume_chk(w) == Checkpoint(w, "rt_resume_chk", "rt_resume_run")

\* 379
rt_resume_run(w) == WorkerUpdateTask(w, "rt_resume_run", [task EXCEPT !.status = "running"], "rt_iter")

\* 383-389: next critic iteration: checkpoint, reload task and steps
rt_iter(w) ==
  /\ workers[w].pc = "rt_iter"
  /\ workers' =
       IF workers[w].critic_iter >= max_critic_iters THEN Goto(w, "rt_exh_chk")
       ELSE IF checkpoint_canceled(task.status) THEN Finish(w)
       ELSE [workers EXCEPT ![w].pc = "rt_loop", ![w].steps = _load_steps,
                            ![w].idx = task.current_step]
  /\ UNCHANGED <<task, steps, approvals, policy, env, grants, tool_runs,
                 task_update_seq, now, next_id, uak_running, uak_rt, calls, patches, restarts, critic_calls, planner_calls,
                 aux_vars>>

\* 391-401: loop test, checkpoint, dispatch on the loaded status of steps[idx]
rt_loop(w) ==
  /\ workers[w].pc = "rt_loop"
  /\ workers' =
       IF workers[w].idx >= Len(workers[w].steps) THEN Goto(w, "rt_report")
       ELSE IF checkpoint_canceled(task.status) THEN Finish(w)
       ELSE IF CurStep(w).status = "succeeded" THEN Goto(w, "rt_skip")
       ELSE IF CurStep(w).status = "waiting_approval" THEN Goto(w, "rt_wait_read")
       ELSE Goto(w, "rt_step_run")
  /\ UNCHANGED <<task, steps, approvals, policy, env, grants, tool_runs,
                 task_update_seq, now, next_id, uak_running, uak_rt, calls, patches, restarts, critic_calls, planner_calls,
                 aux_vars>>

\* 396-397
rt_skip(w) ==
  /\ workers[w].pc = "rt_skip"
  /\ task' = [task EXCEPT !.current_step = workers[w].idx + 1]
  /\ task_update_seq' = Bump(1)
  /\ workers' = [workers EXCEPT ![w].pc = "rt_loop", ![w].idx = workers[w].idx + 1]
  /\ UNCHANGED <<steps, approvals, policy, env, grants, tool_runs, now, next_id,
                 uak_running, uak_rt, calls, patches, restarts, critic_calls, planner_calls,
                 aux_vars>>

\* _approval_status_for_step(step_id): the statuses the query may return
ApprovalStatuses(sid) ==
  IF LatestApprovals(approvals, sid) = {} THEN {"none"}
  ELSE {approvals[a].status : a \in LatestApprovals(approvals, sid)}

\* 402-403
rt_wait_read(w) ==
  /\ workers[w].pc = "rt_wait_read"
  /\ \E ap \in ApprovalStatuses(CurStep(w).id) :
       workers' = Goto(w, IF ap = "approved" THEN "rt_wait_pend" ELSE "rt_wait_chk")
  /\ UNCHANGED <<task, steps, approvals, policy, env, grants, tool_runs,
                 task_update_seq, now, next_id, uak_running, uak_rt, calls, patches, restarts, critic_calls, planner_calls,
                 aux_vars>>

\* 405
rt_wait_pend(w) ==
  WorkerUpdateStep(w, "rt_wait_pend", [status |-> "pending"], "rt_step_run")

\* 407
rt_wait_chk(w) == Checkpoint(w, "rt_wait_chk", "rt_wait_set")

\* 408-409
rt_wait_set(w) == WorkerUpdateTask(w, "rt_wait_set", [task EXCEPT !.status = "waiting_approval"], "")

\* 411
rt_step_run(w) ==
  WorkerUpdateStep(w, "rt_step_run", [status |-> "running", error |-> ""], "rt_gate")

\* 415-421: requires_approval of a step, with the network opt-in by policy
step_requires_approval(step_flag, tool, pol) ==
  LET requires == step_flag \/ _tool_requires_approval(tool) IN
  IF ~requires /\ scope_for_tool(tool) = "network" /\ pol # "none" /\ pol # "always_allow"
  THEN TRUE ELSE requires

\* 426: the workspace policy, or the default for the scope
effective_policy(scope, pol) ==
  IF pol # "none" THEN pol ELSE IF scope = "network" THEN "always_allow" ELSE "ask_once"

\* The gate that forgets what was granted or approved before.
gate_decision_asks_again(step_flag, tool, pol, granted, ap_status) ==
  IF ~step_requires_approval(step_flag, tool, pol) THEN "free"
  ELSE LET p == effective_policy(scope_for_tool(tool), pol) IN
       IF p = "always_deny" THEN "deny"
       ELSE IF p = "always_allow" THEN "allow"
       ELSE "ask"

\* The gate with an ask_once policy taken for a permission, granted or not.
gate_decision_ask_once_allows(step_flag, tool, pol, granted, ap_status) ==
  IF ~step_requires_approval(step_flag, tool, pol) THEN "free"
  ELSE LET p == effective_policy(scope_for_tool(tool), pol) IN
       IF p = "always_deny" THEN "deny"
       ELSE IF p = "always_allow" \/ p = "ask_once" THEN "allow"
       ELSE IF ap_status # "approved" THEN "ask"
       ELSE "approved"

\* The gate that treats an always_deny policy like ask_once.
gate_decision_deny_asks(step_flag, tool, pol, granted, ap_status) ==
  IF ~step_requires_approval(step_flag, tool, pol) THEN "free"
  ELSE LET p == effective_policy(scope_for_tool(tool), pol) IN
       IF p = "always_allow" \/ (p = "ask_once" /\ granted) THEN "allow"
       ELSE IF ap_status # "approved" THEN "ask"
       ELSE "approved"

\* 425-442: what the worker does with a step before its tool:
\*   "free"  no approval required      "deny"     fail step and task
\*   "allow" policy or grant allows    "approved" the step's latest approval is approved
\*   "ask"   create an approval row and pause
gate_decision(step_flag, tool, pol, granted, ap_status) ==
  IF ~step_requires_approval(step_flag, tool, pol) THEN "free"
  ELSE LET p == effective_policy(scope_for_tool(tool), pol) IN
       IF p = "always_deny" THEN "deny"
       ELSE IF p = "always_allow" \/ (p = "ask_once" /\ granted) THEN "allow"
       ELSE IF ap_status # "approved" THEN "ask"
       ELSE "approved"

\* 413-442 (the reads): scope, policy, latest approval status, grant
rt_gate(w) ==
  /\ workers[w].pc = "rt_gate"
  /\ \E ap \in ApprovalStatuses(CurStep(w).id) :
       LET tool == CurStep(w).tool
           scope == scope_for_tool(tool)
           d == gate_decision(CurStep(w).requires_approval, tool, get_workspace_policy(scope),
                              is_ask_once_scope_granted(scope), ap)
       IN workers' = Goto(w, CASE d = "free" -> "rt_tool"
                               [] d = "deny" -> "rt_deny_step"
                               [] d = "ask" -> "rt_ask_create"
                               [] OTHER -> "rt_clear")
  /\ UNCHANGED <<task, steps, approvals, policy, env, grants, tool_runs,
                 task_update_seq, now, next_id, uak_running, uak_rt, calls, patches, restarts, critic_calls, planner_calls,
                 aux_vars>>

\* 429
rt_deny_step(w) ==
  WorkerUpdateStep(w, "rt_deny_step", [status |-> "failed", error |-> "denied"],
                   "rt_deny_task")

\* 430-431
rt_deny_task(w) ==
  WorkerUpdateTask(w, "rt_deny_task", [task EXCEPT !.status = "failed", !.error = "denied"], "")

\* 433, 442
rt_clear(w) ==
  WorkerUpdateStep(w, "rt_clear", [requires_approval |-> FALSE], "rt_tool")

\* 436: _create_approval inserts a pending row (the insert raises when the step
\* row is gone: foreign key); requested_at is _now(), one-second resolution
rt_ask_create(w) ==
  /\ workers[w].pc = "rt_ask_create"
  /\ IF StepExists(CurStep(w).id)
     THEN \E ts \in {now, now + 1} :
            /\ now' = ts
            /\ approvals' = Append(approvals, [step_id |-> CurStep(w).id, status |-> "pending",
                                               requested_at |-> ts])
            /\ workers' = Goto(w, "rt_ask_step")
     ELSE /\ workers' = Goto(w, "rt_exc_chk")
          /\ UNCHANGED <<approvals, now>>
  /\ UNCHANGED <<task, steps, policy, env, grants, tool_runs, task_update_seq,
                 next_id, uak_running, uak_rt, calls, patches, restarts, critic_calls, planner_calls,
                 aux_vars>>

\* 437
rt_ask_step(w) ==
  WorkerUpdateStep(w, "rt_ask_step",
                   [status |-> "waiting_approval", requires_approval |-> TRUE],
                   "rt_ask_task")

\* 438-439
rt_ask_task(w) == WorkerUpdateTask(w, "rt_ask_task", [task EXCEPT !.status = "waiting_approval"], "")

\* 447: run_tool(ctx, step["tool"], step["args"]) returns or raises
run_tool_raises(tool) == IF registered(tool) THEN {FALSE, env.tool_raises} ELSE {TRUE}

rt_tool(w) ==
  /\ workers[w].pc = "rt_tool"
  /\ tool_runs' = [tool_runs EXCEPT ![CurStep(w).id] = @ + 1]
  /\ \E raises \in run_tool_raises(CurStep(w).tool) :
       workers' = Goto(w, IF raises THEN "rt_tool_fail" ELSE "rt_tool_ok")
  /\ UNCHANGED <<task, steps, approvals, policy, env, grants, task_update_seq, now,
                 next_id, uak_running, uak_rt, calls, patches, restarts, critic_calls, planner_calls,
                 aux_vars>>

\* 448-449
rt_tool_ok(w) ==
  /\ workers[w].pc = "rt_tool_ok"
  /\ steps' = SetStep(steps, CurStep(w).id, [status |-> "succeeded"])
  /\ workers' = [workers EXCEPT ![w].pc = "rt_ok_chk", ![w].idx = workers[w].idx + 1]
  /\ UNCHANGED <<task, approvals, policy, env, grants, tool_runs, task_update_seq,
                 now, next_id, uak_running, uak_rt, calls, patches, restarts, critic_calls, planner_calls,
                 aux_vars>>

\* 450
rt_ok_chk(w) == Checkpoint(w, "rt_ok_chk", "rt_ok_set")

\* 452
rt_ok_set(w) ==
  WorkerUpdateTask(w, "rt_ok_set",
                   [task EXCEPT !.current_step = workers[w].idx, !.status = "running"], "rt_patch")

\* A worker that calls run_tool again after it raised.
rt_tool_fail_retries(w) ==
  /\ workers[w].pc = "rt_tool_fail"
  /\ workers' = Goto(w, "rt_tool")
  /\ UNCHANGED <<task, steps, approvals, policy, env, grants, tool_runs, task_update_seq, now,
                 next_id, uak_running, uak_rt, calls, patches, restarts, critic_calls, planner_calls,
                 aux_vars>>

\* 455 (the step that failed is steps[idx], idx not advanced)
rt_tool_fail(w) ==
  WorkerUpdateStep(w, "rt_tool_fail", [status |-> "failed", error |-> "tool"],
                   "rt_fail_chk")

\* 456
rt_fail_chk(w) == Checkpoint(w, "rt_fail_chk", "rt_fail_set")

\* 458-459
rt_fail_set(w) ==
  WorkerUpdateTask(w, "rt_fail_set", [task EXCEPT !.status = "failed", !.error = "tool"], "")

\* A plan patch: {add_steps, replace_steps_from_idx (-1 for null), remove_steps}

Patches ==
  {[add_steps |-> a, replace_steps_from_idx |-> r, remove_steps |-> rm] :
     a \in {FixStep, <<>>}, r \in {-1, 0, 1}, rm \in {{}, {0}}}

\* EXECUTOR_SYSTEM: "Do not exceed 25 total steps after patch."
max_total_steps == 25

\* A patch that by itself carries more steps than the prompt allows.
LongPatch ==
  [add_steps |-> [i \in 1..(max_total_steps + 1) |->
                    [tool |-> "filesystem.read_text", requires_approval |-> FALSE]],
   replace_steps_from_idx |-> -1, remove_steps |-> {}]

\* What propose_patch may return as a patch.
ProposedPatches == Patches \cup (IF env.long_patch THEN {LongPatch} ELSE {})

\* _apply_patch(task_id, patch): the steps table it leaves
_apply_patch(tbl, patch) ==
  LET removed == SelectSeq(tbl, LAMBDA r : r.idx \notin patch.remove_steps)
      kept == IF patch.replace_steps_from_idx # -1
              THEN SelectSeq(removed, LAMBDA r : r.idx < patch.replace_steps_from_idx)
              ELSE removed
      start_idx == IF patch.replace_steps_from_idx # -1 THEN patch.replace_steps_from_idx
                   ELSE IF kept = <<>> THEN 0
                   ELSE (CHOOSE m \in {kept[i].idx : i \in DOMAIN kept} :
                           \A i \in DOMAIN kept : kept[i].idx <= m) + 1
  IN kept \o NewRows(patch.add_steps, start_idx)

\* approvals rows whose step row is gone are deleted with it (ON DELETE CASCADE)
Cascade(apps, tbl) == SelectSeq(apps, LAMBDA a : \E i \in DOMAIN tbl : tbl[i].id = a.step_id)

\* 468-471: propose_patch returns null, or raises (its model call or its JSON
\* fails), or returns a patch that is applied, after which the steps are
\* reloaded
rt_patch(w) ==
  /\ workers[w].pc = "rt_patch"
  /\ \/ /\ \E raised \in BOOLEAN :
             workers' = Goto(w, IF raised THEN "rt_patch_exc" ELSE "rt_loop")
        /\ UNCHANGED <<steps, approvals, next_id, patches>>
     \/ \E patch \in ProposedPatches :
          /\ env.executor
          /\ patches < MaxPatches
          /\ next_id + Len(patch.add_steps) <= MaxSteps
          /\ patches' = patches + 1
          /\ steps' = _apply_patch(steps, patch)
          /\ approvals' = Cascade(approvals, steps')
          /\ next_id' = next_id + Len(patch.add_steps)
          /\ workers' = [workers EXCEPT ![w].pc = "rt_loop", ![w].steps = SortByIdx(steps')]
  /\ UNCHANGED <<task, policy, env, grants, tool_runs, task_update_seq, now,
                 uak_running, uak_rt, calls, restarts, critic_calls, planner_calls,
                 aux_vars>>

\* 472-474: "except Exception: pass" around the patching, the loop goes on
rt_patch_exc(w) ==
  /\ workers[w].pc = "rt_patch_exc"
  /\ workers' = Goto(w, "rt_loop")
  /\ UNCHANGED <<task, steps, approvals, policy, env, grants, tool_runs,
                 task_update_seq, now, next_id, uak_running, uak_rt, calls, patches, restarts, critic_calls, planner_calls,
                 aux_vars>>

\* 477-481: report written, output_path set, then critic_review returns ok, or
\* issues with or without fix_steps, or raises
rt_report(w) ==
  /\ workers[w].pc = "rt_report"
  /\ task' = [task EXCEPT !.output_path = TRUE]
  /\ task_update_seq' = Bump(1)
  /\ critic_calls' = critic_calls + 1
  /\ \E v \in env.verdicts :
       workers' = CASE v = "ok" -> Goto(w, "rt_crit_ok_chk")
                    [] v = "nofix" -> Goto(w, "rt_nofix_chk")
                    [] v = "fix" -> [workers EXCEPT ![w].pc = "rt_fix", ![w].plan = env.fix_steps]
                    [] OTHER -> Goto(w, "rt_exc_chk")
  /\ UNCHANGED <<steps, approvals, policy, env, grants, tool_runs, now, next_id,
                 uak_running, uak_rt, calls, patches, restarts, planner_calls,
                 aux_vars>>

\* 483
rt_crit_ok_chk(w) == Checkpoint(w, "rt_crit_ok_chk", "rt_crit_ok_set")

\* 485-486
rt_crit_ok_set(w) ==
  WorkerUpdateTask(w, "rt_crit_ok_set", [task EXCEPT !.status = "succeeded", !.error = ""], "")

\* 491
rt_nofix_chk(w) == Checkpoint(w, "rt_nofix_chk", "rt_nofix_set")

\* 493-494
rt_nofix_set(w) ==
  WorkerUpdateTask(w, "rt_nofix_set", [task EXCEPT !.status = "failed", !.error = "critic_nofix"], "")

\* 496: append the fix steps
rt_fix(w) ==
  /\ workers[w].pc = "rt_fix"
  /\ next_id + Len(workers[w].plan) <= MaxSteps
  /\ steps' = _apply_patch(steps, [add_steps |-> workers[w].plan, replace_steps_from_idx |-> -1,
                                   remove_steps |-> {}])
  /\ next_id' = next_id + Len(workers[w].plan)
  /\ workers' = [workers EXCEPT ![w].pc = "rt_fix_chk", ![w].plan = <<>>]
  /\ UNCHANGED <<task, approvals, policy, env, grants, tool_runs, task_update_seq,
                 now, uak_running, uak_rt, calls, patches, restarts, critic_calls, planner_calls,
                 aux_vars>>

\* 498
rt_fix_chk(w) == Checkpoint(w, "rt_fix_chk", "rt_fix_set")

\* 500, and the for loop's next critic_iter
rt_fix_set(w) ==
  /\ workers[w].pc = "rt_fix_set"
  /\ task' = [task EXCEPT !.status = "running"]
  /\ task_update_seq' = Bump(1)
  /\ workers' = [workers EXCEPT ![w].pc = "rt_iter", ![w].critic_iter = workers[w].critic_iter + 1]
  /\ UNCHANGED <<steps, approvals, policy, env, grants, tool_runs, now, next_id,
                 uak_running, uak_rt, calls, patches, restarts, critic_calls, planner_calls,
                 aux_vars>>

\* 503
rt_exh_chk(w) == Checkpoint(w, "rt_exh_chk", "rt_exh_set")

\* 505
rt_exh_set(w) ==
  WorkerUpdateTask(w, "rt_exh_set", [task EXCEPT !.status = "failed", !.error = "critic_exceeded"], "")

\* 508
rt_exc_chk(w) == Checkpoint(w, "rt_exc_chk", "rt_exc_set")

\* a handler that records the error and leaves the status as it is
rt_exc_log(w) ==
  WorkerUpdateTask(w, "rt_exc_set", [task EXCEPT !.error = "exception"], "")

\* 510
rt_exc_set(w) ==
  WorkerUpdateTask(w, "rt_exc_set", [task EXCEPT !.status = "failed", !.error = "exception"], "")

\* 365-379: planning or resuming
rt_plan_phase(w) ==
  \/ rt_load(w) \/ rt_plan_chk(w) \/ rt_plan_set(w) \/ rt_plan_save(w) \/ rt_plan_del(w)
  \/ rt_plan_ins(w) \/ rt_plan_chk2(w) \/ rt_plan_run(w) \/ rt_resume_chk(w) \/ rt_resume_run(w)

\* 383-474: the step loop
rt_step_phase(w) ==
  \/ rt_iter(w) \/ rt_loop(w) \/ rt_skip(w) \/ rt_wait_read(w) \/ rt_wait_pend(w)
  \/ rt_wait_chk(w) \/ rt_wait_set(w) \/ rt_step_run(w) \/ rt_gate(w) \/ rt_deny_step(w)
  \/ rt_deny_task(w) \/ rt_clear(w) \/ rt_ask_create(w) \/ rt_ask_step(w) \/ rt_ask_task(w)
  \/ rt_tool(w) \/ rt_tool_ok(w) \/ rt_ok_chk(w) \/ rt_ok_set(w) \/ rt_tool_fail(w)
  \/ rt_fail_chk(w) \/ rt_fail_set(w) \/ rt_patch(w) \/ rt_patch_exc(w)

\* 477-494, 506-510: report, Critic verdict without fix steps, exception handler
rt_review_phase(w) ==
  \/ rt_report(w) \/ rt_crit_ok_chk(w) \/ rt_crit_ok_set(w) \/ rt_nofix_chk(w)
  \/ rt_nofix_set(w) \/ rt_exc_chk(w) \/ rt_exc_set(w)

\* 496-505: fix steps of the Critic and the end of the critic iterations
rt_fix_phase(w) ==
  \/ rt_fix(w) \/ rt_fix_chk(w) \/ rt_fix_set(w) \/ rt_exh_chk(w) \/ rt_exh_set(w)

run_task(w) ==
  \/ rt_plan_phase(w)
  \/ rt_step_phase(w)
  \/ rt_review_phase(w)
  \/ rt_fix_phase(w)

\* ------------------------------------------ agent-loop engine: _run_task_uak
\* _WorkbenchPolicyEngine.decide: base is the runtime's own decision
decide(tool, base, pol, granted) ==
  LET scope == scope_for_tool(tool)
      default_pol == IF scope \in {"network", "fs_read", "fs_write"} THEN "always_allow"
                     ELSE "ask_once"
      p == IF pol # "none" THEN pol ELSE default_pol
  IN IF base = "deny" THEN "deny"
     ELSE IF scope = "network" /\ pol = "none" THEN base
     ELSE IF p = "always_allow" THEN "auto"
     ELSE IF p = "always_deny"
          THEN (IF scope \in {"network", "mcp"} \/ base = "require_approval" THEN "deny" ELSE base)
     ELSE IF granted THEN "auto"
     ELSE "require_approval"

\* the worker returns: "finally: _uak_unregister_running(task_id)"
UakFinish(w) ==
  /\ workers' = Finish(w)
  /\ uak_running' = 0

UakCheckpoint(w, from, to) ==
  /\ workers[w].pc = from
  /\ IF checkpoint_canceled(task.status) THEN UakFinish(w)
     ELSE workers' = Goto(w, to) /\ uak_running' = uak_running
  /\ UNCHANGED <<task, steps, approvals, policy, env, grants, tool_runs, task_update_seq,
                 now, next_id, uak_rt, calls, patches, restarts, critic_calls, planner_calls,
                 aux_vars>>

UakUpdateTask(w, from, tk, to) ==
  /\ workers[w].pc = from
  /\ task' = tk
  /\ task_update_seq' = Bump(1)
  /\ IF to = "" THEN UakFinish(w) ELSE workers' = Goto(w, to) /\ uak_running' = uak_running
  /\ UNCHANGED <<steps, approvals, policy, env, grants, tool_runs, now, next_id, uak_rt,
                 calls, patches, restarts, critic_calls, planner_calls,
                 aux_vars>>

\* uak_engine.py 873, 906, 946: "if not _is_task_canceled(task_id):"
bg_start(w) ==
  /\ workers[w].pc = "bg_start"
  /\ IF checkpoint_canceled(task.status)
     THEN workers' = Goto(w, "u_load") /\ uak_running' = w
     ELSE workers' = Goto(w, "bg_set") /\ uak_running' = uak_running
  /\ UNCHANGED <<task, steps, approvals, policy, env, grants, tool_runs, task_update_seq,
                 now, next_id, uak_rt, calls, patches, restarts, critic_calls, planner_calls,
                 aux_vars>>

\* 874, 907, 947: _update_task(status="running", error=None[, interrupt cleared]),
\* then the loop task is created and registered in _UAK_RUNNING
bg_set(w) ==
  /\ workers[w].pc = "bg_set"
  /\ task' = IF workers[w].kind = "uak_run"
             THEN [task EXCEPT !.status = "running", !.error = "", !.interrupt = FALSE]
             ELSE [task EXCEPT !.status = "running", !.error = ""]
  /\ task_update_seq' = Bump(1)
  /\ workers' = Goto(w, "u_load")
  /\ uak_running' = w
  /\ UNCHANGED <<steps, approvals, policy, env, grants, tool_runs, now, next_id, uak_rt,
                 calls, patches, restarts, critic_calls, planner_calls,
                 aux_vars>>

\* 1001-1012: load the task row; a fresh run deletes the steps and approvals
u_load(w) ==
  /\ workers[w].pc = "u_load"
  /\ workers' = [workers EXCEPT ![w].t_interrupt = task.interrupt, ![w].t_run_id = task.run_id,
                                ![w].pc = IF workers[w].resume = "none" THEN "u_clear" ELSE "u_chk0"]
  /\ UNCHANGED <<task, steps, approvals, policy, env, grants, tool_runs, task_update_seq,
                 now, next_id, uak_running, uak_rt, calls, patches, restarts, critic_calls, planner_calls,
                 aux_vars>>

\* 1009-1010
u_clear(w) ==
  /\ workers[w].pc = "u_clear"
  /\ steps' = <<>>
  /\ approvals' = <<>>
  /\ workers' = Goto(w, "u_chk0")
  /\ UNCHANGED <<task, policy, env, grants, tool_runs, task_update_seq, now, next_id,
                 uak_running, uak_rt, calls, patches, restarts, critic_calls, planner_calls,
                 aux_vars>>

\* 1161, then 1214 (fresh run) or 1229-1230, 1340-1345 (resume: the run id and the
\* interrupt of the loaded row must be there)
u_chk0(w) ==
  /\ workers[w].pc = "u_chk0"
  /\ IF checkpoint_canceled(task.status) THEN UakFinish(w)
     ELSE /\ uak_running' = uak_running
          /\ workers' = Goto(w, IF workers[w].resume = "none" THEN "u_setrun"
                                ELSE IF ~workers[w].t_run_id \/ ~workers[w].t_interrupt THEN "u_exc_chk"
                                ELSE "u_rset")
  /\ UNCHANGED <<task, steps, approvals, policy, env, grants, tool_runs, task_update_seq,
                 now, next_id, uak_rt, calls, patches, restarts, critic_calls, planner_calls,
                 aux_vars>>

\* 1216-1227: create_run, then the run id is stored and the interrupt cleared
u_setrun(w) ==
  UakUpdateTask(w, "u_setrun", [task EXCEPT !.backend = "uak", !.run_id = TRUE, !.interrupt = FALSE],
                "u_chk2")

\* 1255
u_chk2(w) == UakCheckpoint(w, "u_chk2", "u_setrunning")

\* 1257
u_setrunning(w) ==
  UakUpdateTask(w, "u_setrunning", [task EXCEPT !.status = "running", !.error = ""], "u_run")

\* 1347
u_rset(w) == UakUpdateTask(w, "u_rset", [task EXCEPT !.status = "running", !.error = ""], "u_resume")

\* How a turn of the loop ends for the worker: o is the loop's own ending.
LoopEnd(w, o) ==
  IF o = "tool"
  THEN LET d == decide(env.loop_tool, env.loop_base,
                       get_workspace_policy(scope_for_tool(env.loop_tool)),
                       is_ask_once_scope_granted(scope_for_tool(env.loop_tool)))
       IN IF d = "require_approval" THEN "interrupt" ELSE "done"
  ELSE o

AfterLoop(w, e) ==
  [workers EXCEPT ![w].out = IF e \in {"done", "empty"} THEN e ELSE "",
                  ![w].pc = CASE e = "interrupt" -> "u_int_task"
                              [] e = "error" -> "u_exc_chk"
                              [] e = "guardrail" -> "u_guard_set"
                              [] e = "cancelled" -> "u_can_chk"
                              [] OTHER -> IF workers[w].resume = "approve" THEN "u_grant"
                                          ELSE "u_done_chk"]

\* 1258-1267: kernel.runtime.start_run returns, raises, is interrupted for an
\* approval, or is cancelled by cancel_uak_task
u_run(w) ==
  /\ workers[w].pc = "u_run"
  /\ \E o \in env.loop \cup (IF workers[w].cancel THEN {"cancelled"} ELSE {}) :
       LET e == LoopEnd(w, o) IN
       /\ workers' = AfterLoop(w, e)
       /\ uak_rt' = IF e = "interrupt" THEN [open |-> TRUE, tool |-> env.loop_tool, step |-> 0]
                    ELSE uak_rt
  /\ UNCHANGED <<task, steps, approvals, policy, env, grants, tool_runs, task_update_seq,
                 now, next_id, uak_running, calls, patches, restarts, critic_calls, planner_calls,
                 aux_vars>>

\* 1348-1357: kernel.runtime.resume_run with the decision: an open interrupt is
\* closed and, when approved, its tool call is made; then the loop goes on
u_resume(w) ==
  /\ workers[w].pc = "u_resume"
  /\ \E o \in env.loop \cup (IF workers[w].cancel THEN {"cancelled"} ELSE {}) :
       LET e == LoopEnd(w, o)
           ran == uak_rt.open /\ workers[w].resume = "approve" /\ o # "cancelled"
       IN /\ workers' = AfterLoop(w, e)
          /\ uak_rt' = IF e = "interrupt" THEN [open |-> TRUE, tool |-> env.loop_tool, step |-> 0]
                       ELSE IF o = "cancelled" THEN uak_rt
                       ELSE NoInterrupt
          /\ tool_runs' = IF ran /\ uak_rt.step # 0 THEN [tool_runs EXCEPT ![uak_rt.step] = @ + 1]
                          ELSE tool_runs
  /\ UNCHANGED <<task, steps, approvals, policy, env, grants, task_update_seq, now, next_id,
                 uak_running, calls, patches, restarts, critic_calls, planner_calls,
                 aux_vars>>

\* 1358-1370: checkpoint, then the ask-once grant for the tool that was pending
u_grant(w) ==
  /\ workers[w].pc = "u_grant"
  /\ IF checkpoint_canceled(task.status)
     THEN UakFinish(w) /\ grants' = grants
     ELSE /\ grants' = grant_ask_once_scope(grants, scope_for_tool(env.loop_tool))
          /\ workers' = Goto(w, "u_done_chk")
          /\ uak_running' = uak_running
  /\ UNCHANGED <<task, steps, approvals, policy, env, tool_runs, task_update_seq, now,
                 next_id, uak_rt, calls, patches, restarts, critic_calls, planner_calls,
                 aux_vars>>

\* 1316, 1330 (fresh run); 1418, 1432 (resume)
u_done_chk(w) == UakCheckpoint(w, "u_done_chk", "u_done_set")

\* 1318-1337, 1420-1442: failed for an empty output, else succeeded
u_done_set(w) ==
  UakUpdateTask(w, "u_done_set",
                IF workers[w].out = "empty"
                THEN [task EXCEPT !.status = "failed", !.error = "empty", !.output_path = TRUE,
                                  !.interrupt = FALSE]
                ELSE [task EXCEPT !.status = "succeeded", !.error = "", !.output_path = TRUE,
                                  !.interrupt = FALSE],
                "")

\* 1444-1447: except asyncio.CancelledError
u_can_chk(w) == UakCheckpoint(w, "u_can_chk", "u_can_set")

\* 1448-1457
u_can_set(w) ==
  UakUpdateTask(w, "u_can_set",
                [task EXCEPT !.status = "canceled", !.error = "canceled", !.interrupt = FALSE], "")

\* 1459-1469: except InterruptRaised: the task waits, the interrupt is stored
u_int_task(w) ==
  UakUpdateTask(w, "u_int_task", [task EXCEPT !.status = "waiting_approval", !.interrupt = TRUE],
                "u_int_step")

\* 1480: _insert_pending_approval_step: a waiting step at MAX(idx)+1
u_int_step(w) ==
  /\ workers[w].pc = "u_int_step"
  /\ next_id < MaxSteps
  /\ LET start_idx == IF steps = <<>> THEN 0
                      ELSE (CHOOSE m \in {steps[i].idx : i \in DOMAIN steps} :
                              \A i \in DOMAIN steps : steps[i].idx <= m) + 1
     IN steps' = Append(steps, [id |-> next_id + 1, idx |-> start_idx, tool |-> uak_rt.tool,
                                status |-> "waiting_approval", requires_approval |-> TRUE,
                                error |-> ""])
  /\ next_id' = next_id + 1
  /\ uak_rt' = [uak_rt EXCEPT !.step = next_id + 1]
  /\ workers' = [workers EXCEPT ![w].pc = "u_int_appr", ![w].idx = next_id + 1]
  /\ UNCHANGED <<task, approvals, policy, env, grants, tool_runs, task_update_seq, now,
                 uak_running, calls, patches, restarts, critic_calls, planner_calls,
                 aux_vars>>

\* 1483: _create_approval for the step just inserted (lost, like any failure of
\* this block, when the step row is gone)
u_int_appr(w) ==
  /\ workers[w].pc = "u_int_appr"
  /\ IF StepExists(workers[w].idx)
     THEN \E ts \in {now, now + 1} :
            /\ now' = ts
            /\ approvals' = Append(approvals, [step_id |-> workers[w].idx, status |-> "pending",
                                               requested_at |-> ts])
     ELSE UNCHANGED <<approvals, now>>
  /\ UakFinish(w)
  /\ UNCHANGED <<task, steps, policy, env, grants, tool_runs, task_update_seq, next_id,
                 uak_rt, calls, patches, restarts, critic_calls, planner_calls,
                 aux_vars>>

\* 1488-1492, 1563-1564: except Exception
u_exc_chk(w) == UakCheckpoint(w, "u_exc_chk", "u_exc_set")

\* 1501, 1565
u_exc_set(w) ==
  UakUpdateTask(w, "u_exc_set", [task EXCEPT !.status = "failed", !.error = "exception"], "")

\* 1503-1558: output_guardrail_failed: failed, with or without a report
u_guard_set(w) ==
  UakUpdateTask(w, "u_guard_set",
                [task EXCEPT !.status = "failed", !.error = "guardrail", !.interrupt = FALSE], "")

run_task_uak(w) ==
  \/ bg_start(w) \/ bg_set(w) \/ u_load(w) \/ u_clear(w) \/ u_chk0(w) \/ u_setrun(w)
  \/ u_chk2(w) \/ u_setrunning(w) \/ u_rset(w) \/ u_run(w) \/ u_resume(w) \/ u_grant(w)
  \/ u_done_chk(w) \/ u_done_set(w) \/ u_can_chk(w) \/ u_can_set(w) \/ u_int_task(w)
  \/ u_int_step(w) \/ u_int_appr(w) \/ u_exc_chk(w) \/ u_exc_set(w) \/ u_guard_set(w)

\* The process dies and is started again: threads, grants and the registry of
\* running agent loops are gone, the store is kept.
Restart ==
  /\ restarts < MaxRestarts
  /\ task.status # "none"
  /\ restarts' = restarts + 1
  /\ workers' = [w \in WorkerIds |-> IdleWorker]
  /\ grants' = {}
  /\ uak_running' = 0
  /\ UNCHANGED <<task, steps, approvals, policy, env, tool_runs, task_update_seq,
                 now, next_id, uak_rt, calls, patches, critic_calls, planner_calls,
                 aux_vars>>

\* ------------------------------------------------- event log and event bus
Max(S) == CHOOSE m \in S : \A x \in S : x <= m
Min(S) == CHOOSE m \in S : \A x \in S : m <= x

\* The integers of S in ascending order.
RECURSIVE Ascending(_)
Ascending(S) == IF S = {} THEN <<>> ELSE <<Min(S)>> \o Ascending(S \ {Min(S)})

Live(t) == task_ids[t].row = "live"

\* A rowid that counts the rows of the table
next_rowid_count(log) == Cardinality(log) + 1

\* db.py 151-160: event_log has a TEXT primary key, so seq is the table's
\* rowid: one more than the largest rowid in the table, 1 in an empty table
next_rowid(log) == IF log = {} THEN 1 ELSE Max({r.seq : r \in log}) + 1

\* engine.py 60-69 (uak_engine.py 79-93): the INSERT of one event_log row. The
\* foreign key refuses a task that is not there; every exception is swallowed.
\* The result is the row inserted, or none.
_log_event(t, type, c) ==
  {{}} \cup (IF Live(t)
             THEN {{[seq |-> next_rowid(event_log), task_id |-> t, type |-> type, change |-> c]}}
             ELSE {})

\* Queue.put_nowait: Full is raised (and swallowed by emit) only when maxsize
\* is positive and reached
put_nowait(q, ev) ==
  IF queue_maxsize > 0 /\ Len(q) >= queue_maxsize THEN q ELSE Append(q, ev)

\* events.py 34-43: put_nowait on the queue of every subscriber
emit(b, ev) ==
  [s \in SubIds |-> IF b[s].on THEN [b[s] EXCEPT !.q = put_nowait(@, ev)] ELSE b[s]]

\* events.py 23-27
subscribe(s) ==
  /\ ~bus[s].on
  /\ bus' = [bus EXCEPT ![s] = [on |-> TRUE, q |-> <<>>]]
  /\ UNCHANGED <<engine_vars, fan_vars, sched_vars, store_vars, task_ids, event_log, changes, updaters, reader>>

\* events.py 30-33
unsubscribe(s) ==
  /\ bus[s].on
  /\ bus' = [bus EXCEPT ![s] = [on |-> FALSE, q |-> <<>>]]
  /\ UNCHANGED <<engine_vars, fan_vars, sched_vars, store_vars, task_ids, event_log, changes, updaters, reader>>

\* main.py 1046: the stream takes the next event of its queue
sse_get(s) ==
  /\ bus[s].on
  /\ bus[s].q # <<>>
  /\ bus' = [bus EXCEPT ![s].q = Tail(@)]
  /\ UNCHANGED <<engine_vars, fan_vars, sched_vars, store_vars, task_ids, event_log, changes, updaters, reader>>

Logged(rows) ==
  /\ event_log' = event_log \cup rows
  /\ task_ids' = [t \in TaskIds |->
                    IF \E r \in rows : r.task_id = t
                    THEN [task_ids[t] EXCEPT !.last_seq = Max({r.seq : r \in rows})]
                    ELSE task_ids[t]]

\* engine.py 94-100: create_task inserts the tasks row
create_task(u, t) ==
  /\ updaters[u].pc = "idle"
  /\ task_ids[t].row = "none"
  /\ \A t0 \in TaskIds : t0 < t => task_ids[t0].row # "none"
  /\ task_ids' = [task_ids EXCEPT ![t].row = "live"]
  /\ updaters' = [updaters EXCEPT ![u] = [IdleUpdater EXCEPT !.pc = "ct_log", !.kind = "create",
                                                             !.task = t]]
  /\ UNCHANGED <<engine_vars, fan_vars, sched_vars, store_vars, event_log, changes, bus, reader>>

\* engine.py 102-104: the chat_message row that seeds the task's history
ct_log(u) ==
  /\ updaters[u].pc = "ct_log"
  /\ \E rows \in _log_event(updaters[u].task, "chat_message", 0) : Logged(rows)
  /\ updaters' = [updaters EXCEPT ![u].pc = "ct_emit"]
  /\ UNCHANGED <<engine_vars, fan_vars, sched_vars, store_vars, changes, bus, reader>>

\* engine.py 105-108: emit("event_log", ...)
ct_emit(u) ==
  /\ updaters[u].pc = "ct_emit"
  /\ bus' = emit(bus, [type |-> "event_log", change |-> 0])
  /\ updaters' = [updaters EXCEPT ![u] = IdleUpdater]
  /\ UNCHANGED <<engine_vars, fan_vars, sched_vars, store_vars, task_ids, event_log, changes, reader>>

\* db.py 266-268: one exec_sql call. The store is busy for the first `locked`
\* attempts of a write; `fault` is an error that is not contention. exec_sql
\* makes the one attempt and lets the exception out.
exec_sql(attempt, locked, fault) ==
  IF attempt <= locked THEN "busy" ELSE IF fault THEN "error" ELSE "ok"

\* main.py 1864: range(6)
delete_attempts == 6

\* main.py 1863-1877: the loop around DELETE FROM tasks, at attempt i: a busy
\* or locked store is tried again, at most delete_attempts times; any other
\* OperationalError is raised at once
RECURSIVE delete_loop(_, _, _)
delete_loop(i, locked, fault) ==
  LET r == exec_sql(i, locked, fault)
  IN  IF r = "ok" THEN [attempts |-> i, raised |-> "none"]
      ELSE IF r = "error" THEN [attempts |-> i, raised |-> "error"]
      ELSE IF i < delete_attempts THEN delete_loop(i + 1, locked, fault)
      ELSE [attempts |-> i, raised |-> "busy"]

\* For how many attempts a write finds the store busy: never, once, for all
\* attempts but the last, for all of them
Contention == {0, 1, delete_attempts - 1, delete_attempts}

\* The response of DELETE /api/tasks/{id}: ok, 503 for a store that stayed
\* busy (main.py 1876-1877), 500 for an exception that was not handled
DeleteStatus(raised) ==
  CASE raised = "none" -> 200
    [] raised = "busy" -> 503
    [] OTHER -> 500

\* A foreign key that leaves the rows of a deleted task in place
on_delete_restrict(rows, t) == rows

\* db.py 117, 129, 159: FOREIGN KEY(task_id) REFERENCES tasks(id) ON DELETE
\* CASCADE, with foreign_keys=ON (db.py 41): the rows of task t go with it
on_delete_cascade(rows, t) == {r \in rows : r.task_id # t}

\* main.py 1837-1878: DELETE /api/tasks/{id}. A task that is not there is
\* answered with ok at once; otherwise DELETE FROM tasks, and the task's
\* steps, approvals and event_log rows go with it (ON DELETE CASCADE).
api_delete_task(t, locked, fault) ==
  /\ IF ~Live(t)
     THEN /\ last_write' = [NoWrite EXCEPT !.kind = "task_delete", !.status = 200]
          /\ UNCHANGED <<task_ids, event_log, children>>
     ELSE LET r == delete_loop(1, locked, fault)
          IN  /\ last_write' = [kind |-> "task_delete", attempts |-> r.attempts,
                                busy |-> Min({locked, r.attempts}),
                                committed |-> r.raised = "none", raised |-> r.raised,
                                status |-> DeleteStatus(r.raised)]
              /\ IF r.raised = "none"
                 THEN /\ task_ids' = [task_ids EXCEPT ![t].row = "deleted"]
                      /\ event_log' = on_delete_cascade(event_log, t)
                      /\ children' = on_delete_cascade(children, t)
                 ELSE UNCHANGED <<task_ids, event_log, children>>
  /\ UNCHANGED <<engine_vars, fan_vars, sched_vars, changes, bus, updaters, reader>>

\* The rows of a table that hang on task t
ChildRows(table, t) == {c \in children : c.table = table /\ c.task_id = t}

\* engine.py 145-166: _insert_steps inserts one steps row of task t; the
\* foreign key refuses it when the task is not there
insert_step(t) ==
  /\ Live(t)
  /\ Cardinality(ChildRows("steps", t)) < MaxRows
  /\ children' = children \cup
       {[table |-> "steps", task_id |-> t, id |-> Cardinality(ChildRows("steps", t)) + 1,
         step_id |-> 0]}
  /\ UNCHANGED <<engine_vars, fan_vars, event_vars, sched_vars, last_write>>

\* engine.py 201-206: _create_approval inserts an approvals row for a step of
\* task t; the foreign keys want the task and the step to be there
create_approval(t, sid) ==
  /\ Live(t)
  /\ \E c \in ChildRows("steps", t) : c.id = sid
  /\ Cardinality(ChildRows("approvals", t)) < MaxRows
  /\ children' = children \cup
       {[table |-> "approvals", task_id |-> t,
         id |-> Cardinality(ChildRows("approvals", t)) + 1, step_id |-> sid]}
  /\ UNCHANGED <<engine_vars, fan_vars, event_vars, sched_vars, last_write>>

\* The writes behind a user-visible change: _update_task (engine.py 114-118)
\* and _update_step (126-129) call exec_sql once and let its exception out;
\* _log_event (60-69) calls it once and swallows the exception.
WriteKinds == {"task_update", "step_update", "event_append"}
store_write(kind, locked, fault) ==
  /\ LET r == exec_sql(1, locked, fault)
     IN  last_write' = [kind |-> kind, attempts |-> 1, busy |-> Min({locked, 1}),
                        committed |-> r = "ok",
                        raised |-> IF r = "ok" \/ kind = "event_append" THEN "none" ELSE r,
                        status |-> 0]
  /\ UNCHANGED <<engine_vars, fan_vars, event_vars, sched_vars, children>>

\* What a thread does after the store write of its update: _update_task emits
\* and logs, _update_step looks the task up first, _apply_patch returns.
AfterExec(kind) ==
  CASE kind = "task_update" -> "up_emit"
    [] kind = "step_update" -> "up_lookup"
    [] kind = "patch" -> "idle"

\* An update that goes on to emit whether or not its write was committed
up_exec_emits_anyway(u, kind, t) ==
  /\ updaters[u].pc = "idle"
  /\ task_ids[t].row # "none"
  /\ Len(changes) < MaxChanges
  /\ \E ok \in BOOLEAN :
       /\ changes' = Append(changes, [kind |-> kind, task |-> t, committed |-> ok,
                                      emitted |-> FALSE, logged |-> FALSE,
                                      returned |-> AfterExec(kind) = "idle"])
       /\ updaters' = [updaters EXCEPT ![u] =
                         IF AfterExec(kind) # "idle"
                         THEN [pc |-> AfterExec(kind), kind |-> kind, task |-> t,
                               change |-> Len(changes) + 1, task_id |-> t]
                         ELSE IdleUpdater]
  /\ UNCHANGED <<engine_vars, fan_vars, sched_vars, store_vars, task_ids, event_log, bus, reader>>

\* engine.py 118 (_update_task), 129 (_update_step), 325-334 (_apply_patch):
\* exec_sql commits the write, or raises and the caller gets the exception
up_exec(u, kind, t) ==
  /\ updaters[u].pc = "idle"
  /\ task_ids[t].row # "none"
  /\ Len(changes) < MaxChanges
  /\ \E ok \in BOOLEAN :
       /\ changes' = Append(changes, [kind |-> kind, task |-> t, committed |-> ok,
                                      emitted |-> FALSE, logged |-> FALSE,
                                      returned |-> ~ok \/ AfterExec(kind) = "idle"])
       /\ updaters' = [updaters EXCEPT ![u] =
                         IF ok /\ AfterExec(kind) # "idle"
                         THEN [pc |-> AfterExec(kind), kind |-> kind, task |-> t,
                               change |-> Len(changes) + 1, task_id |-> t]
                         ELSE IdleUpdater]
  /\ UNCHANGED <<engine_vars, fan_vars, sched_vars, store_vars, task_ids, event_log, bus, reader>>

\* engine.py 130-135: SELECT task_id FROM steps WHERE id=?: no row once the
\* task and its steps are deleted, None on an exception
up_lookup(u) ==
  /\ updaters[u].pc = "up_lookup"
  /\ \E tid \in {0} \cup (IF Live(updaters[u].task) THEN {updaters[u].task} ELSE {}) :
       updaters' = [updaters EXCEPT ![u].pc = "up_emit", ![u].task_id = tid]
  /\ UNCHANGED <<engine_vars, fan_vars, sched_vars, store_vars, task_ids, event_log, changes, bus, reader>>

\* engine.py 119-122, 136-139: emit("task_update" | "step_update", ...)
up_emit(u) ==
  /\ updaters[u].pc = "up_emit"
  /\ bus' = emit(bus, [type |-> updaters[u].kind, change |-> updaters[u].change])
  /\ changes' = [changes EXCEPT ![updaters[u].change].emitted = TRUE]
  /\ updaters' = [updaters EXCEPT ![u].pc = "up_log"]
  /\ UNCHANGED <<engine_vars, fan_vars, sched_vars, store_vars, task_ids, event_log, reader>>

\* engine.py 123, 140-141: _log_event; _update_step logs only with a task_id
up_log(u) ==
  /\ updaters[u].pc = "up_log"
  /\ \E rows \in (IF updaters[u].task_id = 0 THEN {{}}
                   ELSE _log_event(updaters[u].task_id, updaters[u].kind, updaters[u].change)) :
       /\ Logged(rows)
       /\ changes' = [changes EXCEPT ![updaters[u].change].logged = (rows # {}),
                                     ![updaters[u].change].returned = TRUE]
  /\ updaters' = [updaters EXCEPT ![u] = IdleUpdater]
  /\ UNCHANGED <<engine_vars, fan_vars, sched_vars, store_vars, bus, reader>>

\* api_task_events with a cursor that takes the row it names
api_task_events_from(log, t, after, limit, tail) ==
  LET n == Max({1, Min({limit, max_limit})})
      cursor == IF after < 0 THEN 0 ELSE after
      all == Ascending({r.seq : r \in {x \in log : x.task_id = t}})
      later == Ascending({r.seq : r \in {x \in log : x.task_id = t /\ x.seq >= cursor}})
  IN  IF tail
      THEN SubSeq(all, Max({1, Len(all) - n + 1}), Len(all))
      ELSE SubSeq(later, 1, Min({n, Len(later)}))

\* main.py 1446-1477: the seq of the rows GET /api/tasks/{id}/events returns:
\* the latest n rows of the task (tail), or its first n rows after the cursor;
\* ascending either way
api_task_events(log, t, after, limit, tail) ==
  LET n == Max({1, Min({limit, max_limit})})
      cursor == IF after < 0 THEN 0 ELSE after
      all == Ascending({r.seq : r \in {x \in log : x.task_id = t}})
      later == Ascending({r.seq : r \in {x \in log : x.task_id = t /\ x.seq > cursor}})
  IN  IF tail
      THEN SubSeq(all, Max({1, Len(all) - n + 1}), Len(all))
      ELSE SubSeq(later, 1, Min({n, Len(later)}))

\* What a client may send as after and as limit; log1 of the reader is the
\* set of the task's seqs at its first call.
Cursors == -1..MaxChanges
Limits == {0, 1, 2, max_limit + 1}

\* A client fetches a page of a task's events; its next cursor is the seq of
\* the last row returned (its old cursor when the page is empty).
events_first(t, after, limit, tail) ==
  /\ reader.pc = "start"
  /\ task_ids[t].row # "none"
  /\ LET page == api_task_events(event_log, t, after, limit, tail)
     IN  reader' = [pc |-> "paged", task |-> t, tail |-> FALSE, page1 |-> page,
                    cursor |-> IF page = <<>> THEN (IF after < 0 THEN 0 ELSE after)
                               ELSE page[Len(page)],
                    page2 |-> <<>>, log1 |-> {r.seq : r \in {x \in event_log : x.task_id = t}}]
  /\ UNCHANGED <<engine_vars, fan_vars, sched_vars, store_vars, task_ids, event_log, changes, bus, updaters>>

\* The client fetches the next page with after = its cursor.
events_second(limit, tail) ==
  /\ reader.pc = "paged"
  /\ reader' = [reader EXCEPT !.pc = "done", !.tail = tail,
                              !.page2 = api_task_events(event_log, reader.task, reader.cursor,
                                                        limit, tail)]
  /\ UNCHANGED <<engine_vars, fan_vars, sched_vars, store_vars, task_ids, event_log, changes, bus, updaters>>

Reader ==
  \/ \E t \in TaskIds, after \in Cursors, limit \in Limits, tail \in BOOLEAN :
       events_first(t, after, limit, tail)
  \/ \E limit \in Limits, tail \in BOOLEAN : events_second(limit, tail)

Updater(u) ==
  \/ \E t \in TaskIds : create_task(u, t)
  \/ ct_log(u) \/ ct_emit(u)
  \/ \E kind \in {"task_update", "step_update", "patch"}, t \in TaskIds : up_exec(u, kind, t)
  \/ up_lookup(u) \/ up_emit(u) \/ up_log(u)

\* ------------------------------------------ the event bus, statement by statement
\* _subscribers.remove(q) that removes nothing
remove_nothing(list, q) == list

\* events.py 32-33: "if q in _subscribers: _subscribers.remove(q)"
remove(list, q) == SelectSeq(list, LAMBDA x : x # q)

\* The threads inside emit at this moment
InEmit == {e \in UpdaterIds : emitters[e].pc = "put"}

\* main.py 1038 and events.py 23-27: a stream opens; subscribe() makes a
\* queue and appends it under the lock
api_events(q) ==
  /\ ~queues[q].made
  /\ \A x \in SubIds : x < q => queues[x].made
  /\ queues' = [queues EXCEPT ![q].made = TRUE]
  /\ _subscribers' = Append(_subscribers, q)
  /\ UNCHANGED <<engine_vars, event_vars, sched_vars, store_vars, emitters, emitted>>

\* main.py 1048-1049 and events.py 30-33: the stream closes; "finally:
\* unsubscribe(q)" removes the queue under the lock and returns
event_gen_finally(q) ==
  /\ queues[q].made /\ ~queues[q].left
  /\ _subscribers' = remove(_subscribers, q)
  /\ queues' = [queues EXCEPT ![q].left = TRUE, ![q].inflight = InEmit]
  /\ emitters' = [e \in UpdaterIds |-> [emitters[e] EXCEPT !.held = @ \ {q}]]
  /\ UNCHANGED <<engine_vars, event_vars, sched_vars, store_vars, emitted>>

\* events.py 37-39: emit makes the event and copies the list under the lock
emit_snapshot(e) ==
  /\ emitters[e].pc = "idle"
  /\ emitted < MaxEmits
  /\ emitted' = emitted + 1
  /\ emitters' = [emitters EXCEPT ![e] =
                    [IdleEmitter EXCEPT !.pc = "put", !.ev = emitted + 1, !.subs = _subscribers,
                                        !.held = {_subscribers[i] : i \in DOMAIN _subscribers}]]
  /\ UNCHANGED <<engine_vars, event_vars, sched_vars, store_vars, _subscribers, queues>>

\* events.py 40-44: outside the lock, put_nowait on the next queue of the copy
emit_put(e) ==
  /\ emitters[e].pc = "put"
  /\ emitters[e].subs # <<>>
  /\ LET q == Head(emitters[e].subs)
     IN /\ queues' = [queues EXCEPT ![q].items = put_nowait(@, emitters[e].ev),
                                    ![q].late = @ + (IF queues[q].left THEN 1 ELSE 0)]
        /\ emitters' = [emitters EXCEPT ![e].subs = Tail(@), ![e].puts[q] = @ + 1]
  /\ UNCHANGED <<engine_vars, event_vars, sched_vars, store_vars, _subscribers, emitted>>

\* events.py 44: the loop is over and emit returns
emit_return(e) ==
  /\ emitters[e].pc = "put"
  /\ emitters[e].subs = <<>>
  /\ emitters' = [emitters EXCEPT ![e] = IdleEmitter]
  /\ queues' = [q \in SubIds |-> [queues[q] EXCEPT !.inflight = @ \ {e}]]
  /\ UNCHANGED <<engine_vars, event_vars, sched_vars, store_vars, _subscribers, emitted>>

Emitter(e) == emit_snapshot(e) \/ emit_put(e) \/ emit_return(e)

\* ---------------------------------------------------------------- cron.py
\* A token of a cron field as int() sees it: a number, or text that is none.
Num(v) == [ok |-> TRUE, v |-> v]
NaN == [ok |-> FALSE, v |-> 0]

\* The parts a field is split into at its commas, by the branch of
\* _parse_field that takes them: "*", "*/step", "a-b/step", "a/step", "a-b", "v".
StarPart == [k |-> "star", a |-> NaN, b |-> NaN, step |-> NaN]
StepPart(step) == [k |-> "star_step", a |-> NaN, b |-> NaN, step |-> step]
RangeStepPart(a, b, step) == [k |-> "range_step", a |-> a, b |-> b, step |-> step]
FromStepPart(a, step) == [k |-> "from_step", a |-> a, b |-> NaN, step |-> step]
RangePart(a, b) == [k |-> "range", a |-> a, b |-> b, step |-> NaN]
ValuePart(v) == [k |-> "value", a |-> v, b |-> NaN, step |-> NaN]

\* range(a, b + 1, step) of Python, for a positive step
StepRange(a, b, step) == {v \in a..b : (v - a) % step = 0}

\* cron.py 19-53: the values one part adds, or the exception it raises:
\* CronError, or the ValueError of int() and of range() with step 0
ParsePart(part, min_v, max_v) ==
  LET Err(e) == [err |-> e, values |-> {}]
      Ok(vs) == [err |-> "none", values |-> vs]
  IN  CASE part.k = "star" -> Ok(min_v..max_v)
        [] part.k = "star_step" ->
             IF ~part.step.ok THEN Err("ValueError")
             ELSE IF part.step.v <= 0 THEN Err("CronError")
             ELSE Ok(StepRange(min_v, max_v, part.step.v))
        [] part.k \in {"range_step", "from_step"} ->
             IF ~part.step.ok THEN Err("ValueError")
             ELSE IF ~part.a.ok \/ (part.k = "range_step" /\ ~part.b.ok) THEN Err("ValueError")
             ELSE LET a == part.a.v
                      b == IF part.k = "range_step" THEN part.b.v ELSE max_v
                  IN  IF a < min_v \/ b > max_v \/ a > b THEN Err("CronError")
                      ELSE IF part.step.v = 0 THEN Err("ValueError")
                      ELSE IF part.step.v < 0 THEN Ok({})
                      ELSE Ok(StepRange(a, b, part.step.v))
        [] part.k = "range" ->
             IF ~part.a.ok \/ ~part.b.ok THEN Err("ValueError")
             ELSE IF part.a.v < min_v \/ part.b.v > max_v \/ part.a.v > part.b.v
                  THEN Err("CronError")
             ELSE Ok(part.a.v..part.b.v)
        [] part.k = "value" ->
             IF ~part.a.ok THEN Err("ValueError")
             ELSE IF part.a.v < min_v \/ part.a.v > max_v THEN Err("CronError")
             ELSE Ok({part.a.v})

\* cron.py 12-54: the parts in order; the first exception leaves the function
RECURSIVE _parse_field(_, _, _)
_parse_field(field, min_v, max_v) ==
  IF field = <<>> THEN [err |-> "none", values |-> {}]
  ELSE LET head == ParsePart(Head(field), min_v, max_v)
           rest == _parse_field(Tail(field), min_v, max_v)
       IN  IF head.err # "none" THEN head
           ELSE IF rest.err # "none" THEN rest
           ELSE [err |-> "none", values |-> head.values \cup rest.values]

\* cron.py 65-78: Cron.parse: five fields, parsed in order; day-of-week 7 is 0
parse(expr) ==
  LET Err(e) == [err |-> e, minutes |-> {}, hours |-> {}, dom |-> {}, months |-> {}, dow |-> {}]
  IN  IF Len(expr) # 5 THEN Err("CronError")
      ELSE LET minutes == _parse_field(expr[1], 0, 59)
               hours == _parse_field(expr[2], 0, 23)
               dom == _parse_field(expr[3], 1, 31)
               months == _parse_field(expr[4], 1, 12)
               dow_vals == _parse_field(expr[5], 0, 7)
           IN  IF minutes.err # "none" THEN Err(minutes.err)
               ELSE IF hours.err # "none" THEN Err(hours.err)
               ELSE IF dom.err # "none" THEN Err(dom.err)
               ELSE IF months.err # "none" THEN Err(months.err)
               ELSE IF dow_vals.err # "none" THEN Err(dow_vals.err)
               ELSE [err |-> "none", minutes |-> minutes.values, hours |-> hours.values,
                     dom |-> dom.values, months |-> months.values,
                     dow |-> {IF v = 7 THEN 0 ELSE v : v \in dow_vals.values}]

\* datetime: an instant is its number of minutes since 2024-01-01 00:00 UTC,
\* a Monday; 2024 is a leap year, 2025 and 2026 are not.
DayMinutes == 24 * 60
YearDays(y) == IF y = 0 THEN 366 ELSE 365
MonthDays(y, m) ==
  IF m = 2 THEN (IF y = 0 THEN 29 ELSE 28)
  ELSE IF m \in {4, 6, 9, 11} THEN 30 ELSE 31

\* The year (0 for 2024) and the day of the year (0 for January 1) of day d.
RECURSIVE YearOf(_, _)
YearOf(d, y) == IF d < YearDays(y) THEN [year |-> y, yday |-> d] ELSE YearOf(d - YearDays(y), y + 1)

RECURSIVE MonthOf(_, _, _)
MonthOf(y, yday, m) ==
  IF yday < MonthDays(y, m) THEN [month |-> m, day |-> yday + 1]
  ELSE MonthOf(y, yday - MonthDays(y, m), m + 1)

\* The fields of the datetime t; weekday as Python counts it (Monday 0).
DateTime(t) ==
  LET d == t \div DayMinutes
      yr == YearOf(d, 0)
      md == MonthOf(yr.year, yr.yday, 1)
  IN  [minute |-> t % 60, hour |-> (t % DayMinutes) \div 60, day |-> md.day,
       month |-> md.month, weekday |-> d % 7]

\* cron.py 80-82
matches(cron, t) ==
  LET dt == DateTime(t)
      cron_dow == (dt.weekday + 1) % 7
  IN  /\ dt.minute \in cron.minutes
      /\ dt.hour \in cron.hours
      /\ dt.day \in cron.dom
      /\ dt.month \in cron.months
      /\ cron_dow \in cron.dow

\* cron.py 84: max_lookahead_days
max_lookahead_days == 366

\* A scan that starts at after without its seconds
next_after_first_at(after) == after.min

\* cron.py 86: the first candidate: after, without its seconds, plus a minute
next_after_first(after) == after.min + 1

\* cron.py 87: end = after + max_lookahead_days, in seconds
next_after_end(after) == after.min * 60 + after.sec + max_lookahead_days * DayMinutes * 60

\* cron.py 88-92: one pass of the loop at candidate t
next_after_step(cron, after, t) ==
  IF t * 60 > next_after_end(after) THEN [kind |-> "CronError", t |-> t]
  ELSE IF matches(cron, t) THEN [kind |-> "time", t |-> t]
  ELSE [kind |-> "none", t |-> t + 1]

\* Cron expressions: a sequence of fields, each the sequence of its parts
AnyField == <<StarPart>>
OneValue(v) == <<ValuePart(Num(v))>>
\* '* * * * *' and '*/1 * * * *'
StarExpr == <<AnyField, AnyField, AnyField, AnyField, AnyField>>
EveryMinute == <<<<StepPart(Num(1))>>, AnyField, AnyField, AnyField, AnyField>>
\* '0 0 * * 7': midnight on Sundays, written with day-of-week 7
SundayMidnight == <<OneValue(0), OneValue(0), AnyField, AnyField, OneValue(7)>>
\* '30 12 1,15 * 1-5': 12:30 on a 1st or 15th that is a working day
WorkdayNoon == <<OneValue(30), OneValue(12), <<ValuePart(Num(1)), ValuePart(Num(15))>>,
                 AnyField, <<RangePart(Num(1), Num(5))>>>>
\* '0 0 29 2 *': midnight of a leap day
LeapDay == <<OneValue(0), OneValue(0), OneValue(29), OneValue(2), AnyField>>
\* '0-59/20 * * * *': minutes 0, 20 and 40
ThriceAnHour == <<<<RangeStepPart(Num(0), Num(59), Num(20))>>, AnyField, AnyField, AnyField,
                  AnyField>>
\* Invalid expressions: '* * * *', '60 * * * *', '* 5-1 * * *', '*/0 * * * *',
\* '*/-1 * * * *', 'x * * * *', '1-5/0 * * * *'
FourFields == <<AnyField, AnyField, AnyField, AnyField>>
OutOfRange == <<OneValue(60), AnyField, AnyField, AnyField, AnyField>>
BadRange == <<AnyField, <<RangePart(Num(5), Num(1))>>, AnyField, AnyField, AnyField>>
ZeroStep == <<<<StepPart(Num(0))>>, AnyField, AnyField, AnyField, AnyField>>
NegativeStep == <<<<StepPart(Num(-1))>>, AnyField, AnyField, AnyField, AnyField>>
NonNumeric == <<<<ValuePart(NaN)>>, AnyField, AnyField, AnyField, AnyField>>
RangeZeroStep == <<<<RangeStepPart(Num(1), Num(5), Num(0))>>, AnyField, AnyField, AnyField,
                   AnyField>>
InvalidExprs == {FourFields, OutOfRange, BadRange, ZeroStep, NegativeStep, NonNumeric,
                 RangeZeroStep}

\* ------------------------------------------------- a call of Cron.next_after
\* Some instants, as minutes since 2024-01-01 00:00 and seconds: the new year,
\* the last minute of 28 February, the leap day, the last minute of 2024
LeapEve == (31 + 28) * DayMinutes - 1
NewYearsEve == 366 * DayMinutes - 1
Instants == {[min |-> 0, sec |-> 0], [min |-> 0, sec |-> 30],
             [min |-> LeapEve, sec |-> 59], [min |-> LeapEve + 1, sec |-> 0],
             [min |-> NewYearsEve, sec |-> 1]}
ValidExprs == {StarExpr, EveryMinute, SundayMidnight, WorkdayNoon, LeapDay, ThriceAnHour}

\* cron.py 66-78, 86: Cron.parse(expr), then the first lines of next_after
call_next_after(expr, after) ==
  /\ cron_call.pc = "idle"
  /\ LET cron == parse(expr)
     IN  cron_call' = IF cron.err # "none"
                      THEN [cron_call EXCEPT !.pc = "raised", !.expr = expr, !.after = after,
                                             !.result = [kind |-> cron.err, t |-> 0]]
                      ELSE [cron_call EXCEPT !.pc = "scan", !.expr = expr, !.after = after,
                                             !.cron = cron, !.t = next_after_first(after)]
  /\ UNCHANGED <<engine_vars, fan_vars, event_vars, store_vars, clock, schedules, sched_tasks, _scheduler, sched>>

\* cron.py 88-92: one pass of the loop
next_after_loop ==
  /\ cron_call.pc = "scan"
  /\ LET r == next_after_step(cron_call.cron, cron_call.after, cron_call.t)
     IN  cron_call' = CASE r.kind = "none" -> [cron_call EXCEPT !.t = r.t]
                        [] r.kind = "time" -> [cron_call EXCEPT !.pc = "returned", !.result = r]
                        [] OTHER -> [cron_call EXCEPT !.pc = "raised", !.result = r]
  /\ UNCHANGED <<engine_vars, fan_vars, event_vars, store_vars, clock, schedules, sched_tasks, _scheduler, sched>>

\* ---------------------------------------------------------- scheduler.py
\* main.py 1974-1997: POST /api/schedules: the row is stored as given, with
\* no next_run_at and no last_run_at; the expression is not looked at
api_create_schedule(expr, goal, enabled) ==
  /\ Len(schedules) < MaxSchedules
  /\ schedules' = Append(schedules, [id |-> Len(schedules) + 1, cron_expr |-> expr,
                                     goal |-> goal, enabled |-> enabled,
                                     next_run_at |-> NULL, last_run_at |-> NULL])
  /\ UNCHANGED <<engine_vars, fan_vars, event_vars, store_vars, clock, sched_tasks, _scheduler, sched, cron_call>>

\* A minute passes.
clock_tick ==
  /\ clock < MaxClock
  /\ clock' = clock + 1
  /\ UNCHANGED <<engine_vars, fan_vars, event_vars, store_vars, schedules, sched_tasks, _scheduler, sched, cron_call>>

\* scheduler.py 84-90: start_scheduler (scheduler_enabled is on by default)
start_scheduler ==
  /\ _scheduler = 0 => \E th \in SchedIds : sched[th].state = "none"
  /\ IF _scheduler = 0
     THEN LET th == Min({x \in SchedIds : sched[x].state = "none"})
          IN  /\ _scheduler' = th
              /\ sched' = [sched EXCEPT ![th].state = "alive"]
     ELSE UNCHANGED <<_scheduler, sched>>
  /\ UNCHANGED <<engine_vars, fan_vars, event_vars, store_vars, clock, schedules, sched_tasks, cron_call>>

\* scheduler.py 93-97: stop_scheduler sets the thread's event and forgets the
\* thread; it does not wait for the thread to end
stop_scheduler ==
  /\ IF _scheduler # 0
     THEN /\ sched' = [sched EXCEPT ![_scheduler].stop = TRUE]
          /\ _scheduler' = 0
     ELSE UNCHANGED <<_scheduler, sched>>
  /\ UNCHANGED <<engine_vars, fan_vars, event_vars, store_vars, clock, schedules, sched_tasks, cron_call>>

\* The one thread of the model at pc
SchedAt(th, pc) == sched[th].state = "alive" /\ sched[th].pc = pc

\* UPDATE schedules SET ... WHERE id=?
SetSchedule(id, field, v) ==
  [k \in DOMAIN schedules |->
     IF schedules[k].id = id THEN [schedules[k] EXCEPT ![field] = v] ELSE schedules[k]]

\* The schedule the loop of tick_once is at
Sch(th) == sched[th].rows[sched[th].i]

\* scheduler.py 36, 46: the loop moves on to the next row
NextRow(th) == [sched[th] EXCEPT !.pc = "sch", !.i = @ + 1]

\* scheduler.py 70: the loop condition of run
run_check(th) ==
  /\ SchedAt(th, "run")
  /\ sched' = IF sched[th].stop THEN [sched EXCEPT ![th].state = "dead"]
              ELSE [sched EXCEPT ![th].pc = "tick"]
  /\ UNCHANGED <<engine_vars, fan_vars, event_vars, store_vars, clock, schedules, sched_tasks, _scheduler, cron_call>>

\* scheduler.py 34-35: tick_once reads the clock and the enabled schedules
tick_load(th) ==
  /\ SchedAt(th, "tick")
  /\ sched' = [sched EXCEPT ![th].pc = "sch", ![th].now = clock, ![th].i = 1,
                            ![th].rows = SelectSeq(schedules, LAMBDA r : r.enabled)]
  /\ UNCHANGED <<engine_vars, fan_vars, event_vars, store_vars, clock, schedules, sched_tasks, _scheduler, cron_call>>

\* scheduler.py 36-40, 48: the next row of the list, as it was read
sch_pick(th) ==
  /\ SchedAt(th, "sch")
  /\ sched' = [sched EXCEPT ![th] =
       IF sched[th].i > Len(sched[th].rows) THEN [@ EXCEPT !.pc = "wait"]
       ELSE IF Sch(th).next_run_at = NULL
            THEN [@ EXCEPT !.pc = "compute", !.after = sched[th].now - 1, !.ret = "first"]
       ELSE IF Sch(th).next_run_at <= sched[th].now THEN [@ EXCEPT !.pc = "trigger"]
       ELSE NextRow(th)]
  /\ UNCHANGED <<engine_vars, fan_vars, event_vars, store_vars, clock, schedules, sched_tasks, _scheduler, cron_call>>

\* scheduler.py 50-54: the task of a due schedule is made and started
trigger(th) ==
  /\ SchedAt(th, "trigger")
  /\ sched_tasks' = Append(sched_tasks,
       [schedule |-> Sch(th).id, at |-> sched[th].now,
        goal |-> IF Sch(th).goal # "" THEN Sch(th).goal ELSE "Scheduled run"])
  /\ sched' = [sched EXCEPT ![th].pc = "last"]
  /\ UNCHANGED <<engine_vars, fan_vars, event_vars, store_vars, clock, schedules, _scheduler, cron_call>>

\* scheduler.py 55: last_run_at = now
set_last(th) ==
  /\ SchedAt(th, "last")
  /\ schedules' = SetSchedule(Sch(th).id, "last_run_at", sched[th].now)
  /\ sched' = [sched EXCEPT ![th].pc = "compute", ![th].after = sched[th].now,
                            ![th].ret = "next"]
  /\ UNCHANGED <<engine_vars, fan_vars, event_vars, store_vars, clock, sched_tasks, _scheduler, cron_call>>

\* scheduler.py 28-30 (42, 58): _compute_next parses the expression and
\* enters next_after. A CronError is caught at 44 or 60; any other exception
\* leaves tick_once and is dropped by run at 73-74.
compute(th) ==
  /\ SchedAt(th, "compute")
  /\ LET cron == parse(Sch(th).cron_expr)
     IN  sched' = [sched EXCEPT ![th] =
           CASE cron.err = "CronError" -> [@ EXCEPT !.pc = "disable"]
             [] cron.err = "ValueError" -> [@ EXCEPT !.pc = "wait"]
             [] OTHER -> [@ EXCEPT !.pc = "scan", !.cron = cron,
                                   !.t = next_after_first([min |-> sched[th].after, sec |-> 0])]]
  /\ UNCHANGED <<engine_vars, fan_vars, event_vars, store_vars, clock, schedules, sched_tasks, _scheduler, cron_call>>

\* cron.py 88-92: one pass of the loop of next_after
scan(th) ==
  /\ SchedAt(th, "scan")
  /\ LET r == next_after_step(sched[th].cron, [min |-> sched[th].after, sec |-> 0], sched[th].t)
     IN  sched' = [sched EXCEPT ![th] =
           CASE r.kind = "none" -> [@ EXCEPT !.t = r.t]
             [] r.kind = "time" -> [@ EXCEPT !.pc = "store"]
             [] OTHER -> [@ EXCEPT !.pc = "disable"]]
  /\ UNCHANGED <<engine_vars, fan_vars, event_vars, store_vars, clock, schedules, sched_tasks, _scheduler, cron_call>>

\* scheduler.py 43, 59: next_run_at = the time found
store_next(th) ==
  /\ SchedAt(th, "store")
  /\ schedules' = SetSchedule(Sch(th).id, "next_run_at", sched[th].t)
  /\ sched' = [sched EXCEPT ![th] = NextRow(th)]
  /\ UNCHANGED <<engine_vars, fan_vars, event_vars, store_vars, clock, sched_tasks, _scheduler, cron_call>>

\* scheduler.py 45, 61: enabled = 0
disable(th) ==
  /\ SchedAt(th, "disable")
  /\ schedules' = SetSchedule(Sch(th).id, "enabled", FALSE)
  /\ sched' = [sched EXCEPT ![th] = NextRow(th)]
  /\ UNCHANGED <<engine_vars, fan_vars, event_vars, store_vars, clock, sched_tasks, _scheduler, cron_call>>

\* scheduler.py 75: _stop.wait(tick_seconds) returns, at the timeout or at stop
run_wait(th) ==
  /\ SchedAt(th, "wait")
  /\ sched' = [sched EXCEPT ![th].pc = "run"]
  /\ UNCHANGED <<engine_vars, fan_vars, event_vars, store_vars, clock, schedules, sched_tasks, _scheduler, cron_call>>

SchedulerThread(th) ==
  \/ run_check(th)
  \/ tick_load(th)
  \/ sch_pick(th)
  \/ trigger(th)
  \/ set_last(th)
  \/ compute(th)
  \/ scan(th)
  \/ store_next(th)
  \/ disable(th)
  \/ run_wait(th)

\* The expressions, goals and flags POST /api/schedules is called with
ScheduleExprs == {EveryMinute} \cup InvalidExprs
Goals == {"", "goal"}

\* ------------------------------------------------------------ the program
Boundary ==
  \/ api_create_task
  \/ api_start_task
  \/ api_cancel_task
  \/ \E sid \in StepIds, d \in {"approve", "reject"} : StepExists(sid) /\ api_approve(sid, d)
  \/ \E msg \in {"approve", "reject"} : api_task_continue(msg)

Next ==
  \/ Boundary
  \/ \E w \in WorkerIds : run_task(w)
  \/ \E w \in WorkerIds : run_task_uak(w)
  \/ Restart
  \/ \E u \in UpdaterIds : Updater(u)
  \/ \E t \in TaskIds, locked \in Contention, fault \in BOOLEAN :
       api_delete_task(t, locked, fault)
  \/ \E t \in TaskIds : insert_step(t)
  \/ \E t \in TaskIds, sid \in 1..MaxRows : create_approval(t, sid)
  \/ \E kind \in WriteKinds, locked \in {0, 1}, fault \in BOOLEAN : store_write(kind, locked, fault)
  \/ \E s \in SubIds : subscribe(s) \/ unsubscribe(s) \/ sse_get(s)
  \/ Reader
  \/ \E expr \in ScheduleExprs, goal \in Goals, enabled \in BOOLEAN :
       api_create_schedule(expr, goal, enabled)
  \/ clock_tick
  \/ start_scheduler
  \/ stop_scheduler
  \/ \E th \in SchedIds : SchedulerThread(th)
  \/ \E expr \in ValidExprs \cup InvalidExprs, after \in Instants : call_next_after(expr, after)
  \/ next_after_loop
  \/ \E q \in SubIds : api_events(q)
  \/ \E q \in SubIds : event_gen_finally(q)
  \/ \E e \in UpdaterIds : Emitter(e)

Spec == Init /\ [][Next]_vars

\* ------------------------------------------------------------- scenarios
NoPolicy == [s \in Scopes |-> "none"]
PolicyOf(k, p) == [s \in Scopes |-> IF s = k THEN p ELSE "none"]

WriteStep == [tool |-> "filesystem.write_text", requires_approval |-> FALSE]
ShellStep == [tool |-> "shell.exec", requires_approval |-> FALSE]
ReadStep == [tool |-> "filesystem.read_text", requires_approval |-> FALSE]
FlaggedStep == [tool |-> "filesystem.read_text", requires_approval |-> TRUE]
WebStep == [tool |-> "web.fetch", requires_approval |-> FALSE]
McpStep == [tool |-> "mcp/server/tool", requires_approval |-> FALSE]

ClassicEnv(plan, raises, verdicts, executor) ==
  [backend |-> "classic", replies |-> <<Reply(plan), Reply(plan)>>, allowed_tools |-> {},
   tool_raises |-> raises, verdicts |-> verdicts,
   executor |-> executor, loop |-> {"done"}, loop_tool |-> "filesystem.read_text",
   loop_base |-> "auto", long_patch |-> FALSE, fix_steps |-> FixStep]

\* Classic runs in which the Critic proposes no fix steps: plans that ask for
\* approval or not, under the policies that make the difference.
ApprovalRuns ==
  {[env |-> ClassicEnv(<<WriteStep>>, TRUE, {"ok"}, FALSE), policy |-> NoPolicy],
   [env |-> ClassicEnv(<<WriteStep, WriteStep>>, FALSE, {"ok"}, FALSE),
    policy |-> PolicyOf("fs_write", "ask_once")],
   [env |-> ClassicEnv(<<ShellStep>>, FALSE, {"ok"}, FALSE),
    policy |-> PolicyOf("shell", "always_deny")],
   [env |-> ClassicEnv(<<FlaggedStep>>, FALSE, {"ok"}, FALSE),
    policy |-> PolicyOf("fs_read", "always_allow")],
   [env |-> ClassicEnv(<<WebStep>>, FALSE, {"ok"}, FALSE),
    policy |-> PolicyOf("network", "ask_once")],
   [env |-> ClassicEnv(<<ReadStep>>, FALSE, {"nofix", "raise"}, FALSE), policy |-> NoPolicy],
   [env |-> ClassicEnv(<<WriteStep>>, FALSE, {"ok"}, TRUE), policy |-> NoPolicy],
   [env |-> ClassicEnv(<<>>, FALSE, {"ok"}, FALSE), policy |-> NoPolicy]}

InitApproval == (\E r \in ApprovalRuns : env = r.env /\ policy = r.policy) /\ Init

ClassicWorker(w) == rt_plan_phase(w) \/ rt_step_phase(w) \/ rt_review_phase(w)

NextApproval ==
  \/ api_create_task
  \/ api_cancel_task
  \/ \E sid \in StepIds, d \in {"approve", "reject"} : StepExists(sid) /\ api_approve(sid, d)
  \/ \E w \in WorkerIds : ClassicWorker(w)

SpecApproval == InitApproval /\ [][NextApproval]_vars

\* Agent-loop runs: the loop calls shell.exec once the runtime asks for it.
UakRuns ==
  {[env |-> [backend |-> "uak", replies |-> <<Reply(<<>>), Reply(<<>>)>>, allowed_tools |-> {},
             tool_raises |-> FALSE, verdicts |-> {"ok"},
             executor |-> FALSE, loop |-> {"done", "empty", "error", "guardrail", "tool"},
             loop_tool |-> "shell.exec", loop_base |-> "require_approval",
             long_patch |-> FALSE, fix_steps |-> FixStep],
    policy |-> NoPolicy]}

InitUak == (\E r \in UakRuns : env = r.env /\ policy = r.policy) /\ Init

NextUak ==
  \/ api_create_task
  \/ api_cancel_task
  \/ \E sid \in StepIds, d \in {"approve", "reject"} : StepExists(sid) /\ api_approve(sid, d)
  \/ \E msg \in {"approve", "reject"} : api_task_continue(msg)
  \/ \E w \in WorkerIds : run_task_uak(w)

SpecUak == InitUak /\ [][NextUak]_vars

\* The approval runs with a restart of the process while the task waits for
\* an approval and approve_step calls after it, and a plan whose first step
\* needs no approval.
RestartRuns ==
  ApprovalRuns \cup
  {[env |-> ClassicEnv(<<ReadStep, WriteStep>>, FALSE, {"ok"}, FALSE), policy |-> NoPolicy]}

InitRestart == (\E r \in RestartRuns : env = r.env /\ policy = r.policy) /\ Init

RestartWhileWaiting == task.status = "waiting_approval" /\ Restart

ApproveAfterRestart ==
  /\ restarts >= 1
  /\ \E sid \in StepIds : StepExists(sid) /\ api_approve(sid, "approve")

NextRestart ==
  \/ api_create_task
  \/ RestartWhileWaiting
  \/ ApproveAfterRestart
  \/ \E w \in WorkerIds : ClassicWorker(w)

SpecRestart == InitRestart /\ [][NextRestart]_vars

\* The process dies at any moment of a run and the client starts the task
\* again afterwards, or approves a step of it.
StartAfterRestart == restarts >= 1 /\ api_start_task

NextResume ==
  \/ api_create_task
  \/ Restart
  \/ StartAfterRestart
  \/ ApproveAfterRestart
  \/ \E w \in WorkerIds : ClassicWorker(w)

SpecResume == InitRestart /\ [][NextResume]_vars

\* The approval runs with every classic worker scheduled fairly: a started
\* thread runs until run_task returns.
SpecLive == SpecApproval /\ \A w \in WorkerIds : WF_vars(ClassicWorker(w))

\* Runs under the policies that deny, next to runs that ask: one-step classic
\* plans and agent loops that call one tool, without cancellation.
UakEnv(loop, tool, base) ==
  [backend |-> "uak", replies |-> <<Reply(<<>>), Reply(<<>>)>>, allowed_tools |-> {},
             tool_raises |-> FALSE, verdicts |-> {"ok"},
   executor |-> FALSE, loop |-> loop, loop_tool |-> tool, loop_base |-> base,
   long_patch |-> FALSE, fix_steps |-> FixStep]

PolicyRuns ==
  {[env |-> ClassicEnv(<<ShellStep>>, FALSE, {"ok"}, FALSE), policy |-> PolicyOf("shell", "always_deny")],
   [env |-> ClassicEnv(<<WebStep>>, FALSE, {"ok"}, FALSE), policy |-> PolicyOf("network", "always_deny")],
   [env |-> ClassicEnv(<<McpStep>>, FALSE, {"ok"}, FALSE), policy |-> PolicyOf("mcp", "always_deny")],
   [env |-> ClassicEnv(<<FlaggedStep>>, FALSE, {"ok"}, FALSE), policy |-> PolicyOf("fs_read", "always_deny")],
   [env |-> ClassicEnv(<<ReadStep, WriteStep>>, FALSE, {"ok"}, FALSE),
    policy |-> PolicyOf("fs_write", "always_deny")],
   [env |-> ClassicEnv(<<ReadStep>>, FALSE, {"ok"}, FALSE), policy |-> PolicyOf("fs_read", "always_deny")],
   [env |-> ClassicEnv(<<WriteStep>>, TRUE, {"ok"}, TRUE), policy |-> NoPolicy],
   [env |-> ClassicEnv(<<ReadStep>>, FALSE, {"nofix", "raise"}, FALSE), policy |-> NoPolicy],
   [env |-> ClassicEnv(<<>>, FALSE, {"ok"}, FALSE), policy |-> NoPolicy],
   [env |-> UakEnv({"tool"}, "shell.exec", "require_approval"), policy |-> PolicyOf("shell", "always_deny")],
   [env |-> UakEnv({"tool"}, "web.fetch", "auto"), policy |-> PolicyOf("network", "always_deny")],
   [env |-> UakEnv({"tool"}, "mcp/server/tool", "auto"), policy |-> PolicyOf("mcp", "always_deny")],
   [env |-> UakEnv({"tool"}, "filesystem.read_text", "auto"), policy |-> PolicyOf("fs_read", "always_deny")],
   [env |-> UakEnv({"done", "empty", "error", "guardrail", "tool"}, "shell.exec", "require_approval"),
    policy |-> NoPolicy]}

InitPolicy == (\E r \in PolicyRuns : env = r.env /\ policy = r.policy) /\ Init

UakWorker(w) ==
  \/ bg_start(w) \/ bg_set(w) \/ u_load(w) \/ u_clear(w) \/ u_chk0(w) \/ u_setrun(w)
  \/ u_chk2(w) \/ u_setrunning(w) \/ u_rset(w) \/ u_run(w) \/ u_resume(w) \/ u_grant(w)
  \/ u_done_chk(w) \/ u_done_set(w) \/ u_int_task(w) \/ u_int_step(w) \/ u_int_appr(w)
  \/ u_exc_chk(w) \/ u_exc_set(w) \/ u_guard_set(w)

NextPolicy ==
  \/ api_create_task
  \/ \E sid \in StepIds, d \in {"approve", "reject"} : StepExists(sid) /\ api_approve(sid, d)
  \/ \E w \in WorkerIds : ClassicWorker(w)
  \/ \E w \in WorkerIds : UakWorker(w)

SpecPolicy == InitPolicy /\ [][NextPolicy]_vars

\* Three of the approval runs with a client whose first call may start the task again
\* (POST /api/tasks/{id}/start) and that decides approvals.
StartRuns ==
  {[env |-> ClassicEnv(<<WriteStep>>, TRUE, {"ok"}, FALSE), policy |-> NoPolicy],
   [env |-> ClassicEnv(<<ShellStep>>, FALSE, {"ok"}, FALSE),
    policy |-> PolicyOf("shell", "always_deny")],
   [env |-> ClassicEnv(<<ReadStep>>, FALSE, {"nofix", "raise"}, FALSE), policy |-> NoPolicy]}

InitStart == (\E r \in StartRuns : env = r.env /\ policy = r.policy) /\ Init

StartFirst == calls = 0 /\ api_start_task

NextStart ==
  \/ api_create_task
  \/ StartFirst
  \/ \E sid \in StepIds, d \in {"approve", "reject"} : StepExists(sid) /\ api_approve(sid, d)
  \/ \E w \in WorkerIds : ClassicWorker(w)

SpecStart == InitStart /\ [][NextStart]_vars

\* Runs in which the Executor patches the plan, among them one whose patch
\* is longer than its prompt allows; the client decides the approvals asked.
PatchRuns ==
  {[env |-> [ClassicEnv(<<ReadStep>>, FALSE, {"ok"}, TRUE) EXCEPT !.long_patch = TRUE],
    policy |-> NoPolicy],
   [env |-> ClassicEnv(<<WriteStep>>, TRUE, {"ok"}, TRUE), policy |-> NoPolicy],
   [env |-> ClassicEnv(<<ShellStep>>, FALSE, {"ok"}, FALSE),
    policy |-> PolicyOf("shell", "always_deny")],
   [env |-> ClassicEnv(<<ReadStep, WriteStep>>, FALSE, {"nofix", "raise"}, FALSE),
    policy |-> NoPolicy]}

InitPatch == (\E r \in PatchRuns : env = r.env /\ policy = r.policy) /\ Init

DecideAsked ==
  \E sid \in StepIds, d \in {"approve", "reject"} :
    StepExists(sid) /\ ApprovalRows(sid) # {} /\ api_approve(sid, d)

NextPatch ==
  \/ api_create_task
  \/ DecideAsked
  \/ \E w \in WorkerIds : ClassicWorker(w)

SpecPatch == InitPatch /\ [][NextPatch]_vars

\* Runs in which the Critic keeps asking for a fix step that writes a file,
\* next to runs that reach the other endings of a step and of the review.
CriticRuns ==
  {[env |-> [ClassicEnv(<<ReadStep>>, FALSE, {"fix"}, FALSE) EXCEPT !.fix_steps = FixWrite],
    policy |-> NoPolicy],
   [env |-> ClassicEnv(<<WriteStep>>, TRUE, {"ok"}, FALSE), policy |-> NoPolicy],
   [env |-> ClassicEnv(<<ShellStep>>, FALSE, {"ok"}, FALSE),
    policy |-> PolicyOf("shell", "always_deny")],
   [env |-> ClassicEnv(<<ReadStep, WriteStep>>, FALSE, {"nofix", "raise"}, FALSE),
    policy |-> NoPolicy]}

InitCritic == (\E r \in CriticRuns : env = r.env /\ policy = r.policy) /\ Init

\* The client decides while the task waits; in the runs without fix steps
\* also at any other time.
DecideWaiting == task.status = "waiting_approval" /\ DecideAsked
DecideEarly == env.verdicts # {"fix"} /\ task.status # "waiting_approval" /\ DecideAsked

NextCritic ==
  \/ api_create_task
  \/ DecideWaiting
  \/ DecideEarly
  \/ \E w \in WorkerIds : run_task(w)

SpecCritic == InitCritic /\ [][NextCritic]_vars

\* The runs of a skill with a non-empty allowed_tools that holds every tool of
\* the plan: the Critic's fix step or the Executor's patch names a tool of its
\* own choice.
Allowing(run) ==
  [run EXCEPT !.env.allowed_tools =
     {run.env.replies[1].plan.steps.items[i].tool : i \in DOMAIN run.env.replies[1].plan.steps.items}]

AllowRuns ==
  {Allowing(r) : r \in CriticRuns} \cup
  {Allowing([env |-> ClassicEnv(<<ReadStep>>, FALSE, {"ok"}, TRUE), policy |-> NoPolicy])}

InitAllow == (\E r \in AllowRuns : env = r.env /\ policy = r.policy) /\ Init

SpecAllow == InitAllow /\ [][NextCritic]_vars


\* Runs whose tools fail: a handler that may raise in a two-step plan, a tool
\* that is not registered; next to runs that reach the other endings. The
\* client cancels and decides approvals.
ToolRuns ==
  {[env |-> ClassicEnv(<<ReadStep, ReadStep>>, TRUE, {"ok"}, FALSE), policy |-> NoPolicy],
   [env |-> ClassicEnv(<<McpStep>>, FALSE, {"ok"}, FALSE), policy |-> PolicyOf("mcp", "always_allow")],
   [env |-> ClassicEnv(<<WriteStep>>, TRUE, {"ok"}, FALSE), policy |-> NoPolicy],
   [env |-> ClassicEnv(<<ShellStep>>, FALSE, {"ok"}, FALSE),
    policy |-> PolicyOf("shell", "always_deny")],
   [env |-> ClassicEnv(<<ReadStep>>, FALSE, {"nofix", "raise"}, FALSE), policy |-> NoPolicy]}

InitTool == (\E r \in ToolRuns : env = r.env /\ policy = r.policy) /\ Init

SpecTool == InitTool /\ [][NextApproval]_vars

\* Planner runs: answers that do not parse, that parse only on repair, whose
\* steps are missing, not a list, empty, lack a key or name a tool outside
\* allowed_tools; next to the runs whose plans are accepted.
PlanEnv(first, second, allowed) ==
  [ClassicEnv(<<>>, FALSE, {"ok"}, FALSE) EXCEPT !.replies = <<first, second>>,
                                                !.allowed_tools = allowed]

PlanRuns ==
  ToolRuns \cup
  {[env |-> e, policy |-> NoPolicy] :
     e \in {PlanEnv(Garbage, Reply(<<ReadStep>>), {}),
            PlanEnv(Garbage, Garbage, {}),
            PlanEnv(Garbage, NoStepsReply, {}),
            PlanEnv(NoStepsReply, Reply(<<ReadStep>>), {}),
            PlanEnv(NotListReply, Garbage, {}),
            PlanEnv(ListReply(<<>>), Garbage, {}),
            PlanEnv(ListReply(<<NoArgsStep>>), Garbage, {}),
            PlanEnv(ListReply(<<StepDict(ReadStep), NoToolStep>>), Garbage, {}),
            PlanEnv(ListReply(<<BareStep>>), Garbage, {}),
            PlanEnv(Reply(<<ReadStep, WriteStep>>), Garbage, {"filesystem.read_text"}),
            PlanEnv(Reply(<<ReadStep>>), Garbage, {"filesystem.read_text"})}}

InitPlan == (\E r \in PlanRuns : env = r.env /\ policy = r.policy) /\ Init

SpecPlan == InitPlan /\ [][NextApproval]_vars

\* The event log alone: tasks are made and deleted and updates append rows
\* from several threads. Nobody listens to the bus and the run engine stands
\* still.
InitEvents ==
  /\ env = ClassicEnv(<<ReadStep>>, FALSE, {"ok"}, FALSE)
  /\ policy = NoPolicy
  /\ Init

NextEventLog ==
  \/ \E u \in UpdaterIds : Updater(u)
  \/ \E t \in TaskIds : Live(t) /\ api_delete_task(t, 0, FALSE)

SpecEventLog == InitEvents /\ [][NextEventLog]_vars

\* A client pages through a task's events while one thread makes tasks and
\* updates them, and tasks are deleted.
NextPaging ==
  \/ \E t \in TaskIds : create_task(1, t)
  \/ ct_log(1) \/ ct_emit(1)
  \/ \E t \in TaskIds : up_exec(1, "task_update", t)
  \/ up_emit(1) \/ up_log(1)
  \/ \E t \in TaskIds : Live(t) /\ api_delete_task(t, 0, FALSE)
  \/ Reader

SpecPaging == InitEvents /\ [][NextPaging]_vars

\* The event bus: streams subscribe, take events and leave while several
\* threads update tasks and steps and apply patches.
NextBus ==
  \/ \E u \in UpdaterIds : Updater(u)
  \/ \E s \in SubIds : subscribe(s)
  \/ \E s \in SubIds : unsubscribe(s)
  \/ \E s \in SubIds : sse_get(s)

SpecBus == InitEvents /\ [][NextBus]_vars

\* Tasks are made, get steps, approvals and events, and are deleted, once or
\* again, while the store is free, busy for a while, or broken.
NextDelete ==
  \/ \E t \in TaskIds : create_task(1, t)
  \/ ct_log(1) \/ ct_emit(1)
  \/ \E t \in TaskIds : insert_step(t)
  \/ \E t \in TaskIds, sid \in 1..MaxRows : create_approval(t, sid)
  \/ \E t \in TaskIds, locked \in Contention, fault \in BOOLEAN :
       api_delete_task(t, locked, fault)
  \/ \E kind \in WriteKinds, locked \in {0, 1}, fault \in BOOLEAN : store_write(kind, locked, fault)

SpecDelete == InitEvents /\ [][NextDelete]_vars

\* The scheduler as main.py runs it: started and never stopped.
NextSched ==
  \/ \E expr \in ScheduleExprs, goal \in Goals, enabled \in BOOLEAN :
       api_create_schedule(expr, goal, enabled)
  \/ clock_tick
  \/ start_scheduler
  \/ \E th \in SchedIds : SchedulerThread(th)

SpecSched == InitEvents /\ [][NextSched]_vars

\* The scheduler started and stopped at any time, over one enabled schedule.
NextSchedThreads ==
  \/ \E expr \in {EveryMinute, ZeroStep}, goal \in Goals :
       schedules = <<>> /\ api_create_schedule(expr, goal, TRUE)
  \/ clock_tick
  \/ start_scheduler
  \/ stop_scheduler
  \/ \E th \in SchedIds : SchedulerThread(th)

SpecSchedThreads == InitEvents /\ [][NextSchedThreads]_vars

\* Calls of Cron.parse(expr).next_after(after), one at a time.
NextCron ==
  \/ \E expr \in ValidExprs \cup InvalidExprs, after \in Instants : call_next_after(expr, after)
  \/ next_after_loop

SpecCron == InitEvents /\ [][NextCron]_vars

\* Streams open and close while threads emit.
NextFan ==
  \/ \E q \in SubIds : api_events(q)
  \/ \E q \in SubIds : event_gen_finally(q)
  \/ \E e \in UpdaterIds : Emitter(e)

SpecFan == InitEvents /\ [][NextFan]_vars

\* ---------------------------------------------------------------- claims
AllIdle == \A w \in WorkerIds : workers[w].pc = "idle"

\* The latest approval of step sid carries the decision d.
Decided(sid, d) ==
  /\ LatestApprovals(approvals, sid) # {}
  /\ \A a \in LatestApprovals(approvals, sid) :
       approvals[a].status = (IF d = "approve" THEN "approved" ELSE "rejected")

\* C1: terminal states are absorbing: once the task is succeeded, failed or
\* canceled, no step changes its status or emits a task_update event.
C1_TerminalAbsorbing ==
  [][task.status \in Terminal =>
       (task'.status = task.status /\ task_update_seq' = task_update_seq)]_vars

\* C2: cancellation is never lost: once the task is canceled, no step of a
\* classic worker writes another task status.
C2_CancelNeverLost ==
  [][(task.status = "canceled" /\ \E w \in WorkerIds : ClassicWorker(w))
       => task'.status = "canceled"]_vars

\* C3: a task canceled while it waited for an approval (canceled, no worker
\* alive, the step still waiting_approval) is not resumed by approve_step with
\* "approve": it stays canceled, no worker is launched, no task_update is emitted.
C3_NoResumeAfterCancel ==
  [][\A sid \in StepIds :
       (/\ task.status = "canceled"
        /\ AllIdle
        /\ StepExists(sid)
        /\ StepRow(sid).status = "waiting_approval"
        /\ api_approve(sid, "approve"))
       => (task'.status = "canceled" /\ workers' = workers
           /\ task_update_seq' = task_update_seq)]_vars

\* C6: approve_step is idempotent: repeating the decision the step's approval
\* already carries changes no row and launches no worker.
C6_ApproveIdempotent ==
  [][\A sid \in StepIds, d \in {"approve", "reject"} :
       (StepExists(sid) /\ Decided(sid, d) /\ api_approve(sid, d))
       => UNCHANGED <<task, steps, approvals, workers>>]_vars

\* C7: the first decision is authoritative: approve_step with the opposite of
\* the decision already taken changes neither the approval rows nor the step
\* rows nor the task's status.
C7_FirstDecisionStands ==
  [][\A sid \in StepIds, d \in {"approve", "reject"} :
       (/\ StepExists(sid)
        /\ Decided(sid, IF d = "approve" THEN "reject" ELSE "approve")
        /\ api_approve(sid, d))
       => (approvals' = approvals /\ steps' = steps /\ task'.status = task.status)]_vars

\* The gate of the step worker w is at, in the words of C4: the step as loaded
\* does not require approval, or the policy of its scope is always_allow (set,
\* or the default of the network scope), or the scope is granted, or a latest
\* approval row of the step is approved.
GateOpen(w) ==
  LET tool == CurStep(w).tool
      scope == scope_for_tool(tool)
  IN \/ ~(CurStep(w).requires_approval \/ _tool_requires_approval(tool))
     \/ policy[scope] = "always_allow"
     \/ (policy[scope] = "none" /\ scope = "network")
     \/ scope \in grants
     \/ \E a \in LatestApprovals(approvals, CurStep(w).id) : approvals[a].status = "approved"

ToolInvoked(w) == workers[w].pc = "rt_tool" /\ workers'[w].pc # "rt_tool"
LeavesGate(w) == workers[w].pc = "rt_gate" /\ workers'[w].pc # "rt_gate"

AskOnceStep(r) ==
  effective_policy(scope_for_tool(r.tool), get_workspace_policy(scope_for_tool(r.tool))) = "ask_once"

\* C8: ask-once: once the approval of a step of scope S is approved, no later
\* step of scope S under ask_once has an approval row or waits for one.
C8_AskOnce ==
  \A a \in DOMAIN approvals : \A i, j \in DOMAIN steps :
    (/\ approvals[a].status = "approved"
     /\ steps[i].id = approvals[a].step_id
     /\ AskOnceStep(steps[i])
     /\ steps[j].idx > steps[i].idx
     /\ scope_for_tool(steps[j].tool) = scope_for_tool(steps[i].tool))
    => (/\ steps[j].status # "waiting_approval"
        /\ \A b \in DOMAIN approvals : approvals[b].step_id # steps[j].id)

\* C8 witness: two filesystem.write_text steps have both run with one approval.
C8_Witness ==
  /\ task.status = "succeeded"
  /\ Len(approvals) = 1
  /\ approvals[1].status = "approved"
  /\ \E i, j \in DOMAIN steps :
       /\ steps[i].id = approvals[1].step_id
       /\ steps[j].idx > steps[i].idx
       /\ steps[j].tool = "filesystem.write_text" /\ steps[i].tool = "filesystem.write_text"
       /\ tool_runs[steps[i].id] = 1 /\ tool_runs[steps[j].id] = 1

\* C5: whenever the task is waiting_approval, some approval row is pending and
\* its step is waiting_approval.
C5_WaitingHasPending ==
  task.status = "waiting_approval" =>
    \E a \in DOMAIN approvals :
      /\ approvals[a].status = "pending"
      /\ \E i \in DOMAIN steps :
           steps[i].id = approvals[a].step_id /\ steps[i].status = "waiting_approval"

\* C9: after a restart while the task waited and at most one approve_step call
\* after it, no step's tool runs twice, no step has a second approval
\* row, and when the task has succeeded every approved step has run once.
C9_DurableApproval ==
  (restarts >= 1 /\ calls <= 1) =>
    /\ \A s \in StepIds : tool_runs[s] <= 1
    /\ \A s \in StepIds : Cardinality(ApprovalRows(s)) <= 1
    /\ task.status = "succeeded" =>
         \A a \in DOMAIN approvals :
           approvals[a].status = "approved" => tool_runs[approvals[a].step_id] = 1

\* C9 witness: restarted while waiting, approved afterwards by the one call,
\* succeeded: the approved step and the step before it have each run once.
C9_Witness ==
  /\ restarts = 1 /\ calls = 1
  /\ task.status = "succeeded"
  /\ Len(steps) = 2 /\ Len(approvals) = 1
  /\ approvals[1].status = "approved"
  /\ \A i \in DOMAIN steps : steps[i].status = "succeeded" /\ tool_runs[steps[i].id] = 1

LiveWorkers == {w \in WorkerIds : workers[w].pc # "idle"}

\* The approval of the only step that is left has just been approved: all other
\* steps have succeeded, the task is running again, the worker approve_step
\* launched has not started yet, no other worker is alive, the client makes no
\* further call; tools succeed, the Critic answers ok, the Executor is silent.
Approved ==
  /\ env.tool_raises = FALSE /\ env.verdicts = {"ok"} /\ env.executor = FALSE
  /\ calls = MaxCalls
  /\ task.status = "running"
  /\ \A w \in LiveWorkers : workers[w].pc = "rt_load"
  /\ Cardinality(LiveWorkers) <= 1
  /\ \E i \in DOMAIN steps :
       /\ steps[i].status = "waiting_approval"
       /\ Decided(steps[i].id, "approve")
       /\ \A j \in DOMAIN steps : j # i => steps[j].status = "succeeded"

\* C10: once the approval of the only remaining step is approved, the task
\* eventually succeeds.
C10_ApprovedLeadsToSucceeded == Approved ~> (task.status = "succeeded")

\* C10 witness: the state right after approve_step, one fresh worker launched.
C10_Witness == Approved /\ Cardinality(LiveWorkers) = 1

\* C11: a classic task whose only boundary call was approve_step(reject) on a
\* step with an approval row ends, once no worker is left, with the step
\* failed and the task failed, both with the rejection as error, the step's
\* tool never invoked.
C11_RejectFails ==
  (task.backend = "classic" /\ calls = 1 /\ AllIdle) =>
    \A a \in DOMAIN approvals :
      (approvals[a].status = "rejected" /\ StepExists(approvals[a].step_id)) =>
        /\ StepRow(approvals[a].step_id).status = "failed"
        /\ StepRow(approvals[a].step_id).error = "rejected"
        /\ task.status = "failed" /\ task.error = "rejected"
        /\ tool_runs[approvals[a].step_id] = 0

\* The policy of the tool's scope is always_deny and the tool would have
\* required approval, or its scope is network or mcp.
PolicyDenies(tool, requires) ==
  /\ policy[scope_for_tool(tool)] = "always_deny"
  /\ requires \/ scope_for_tool(tool) \in {"network", "mcp"}

C13_DefaultPolicy ==
  [][\A w \in WorkerIds :
       LeavesGate(w) =>
         LET tool == CurStep(w).tool
             scope == scope_for_tool(tool)
             requires == CurStep(w).requires_approval \/ _tool_requires_approval(tool)
             d == decide(tool, IF requires THEN "require_approval" ELSE "auto",
                         get_workspace_policy(scope), is_ask_once_scope_granted(scope))
         IN /\ (get_workspace_policy(scope) = "none" /\ requires
                /\ scope \in {"network", "fs_read", "fs_write"}) => workers'[w].pc = "rt_clear"
            /\ (d = "deny") <=> (workers'[w].pc = "rt_deny_step")
            /\ (workers'[w].pc = "rt_ask_create") => (d = "require_approval")
            /\ (d = "require_approval" /\ ~Decided(CurStep(w).id, "approve"))
                 => workers'[w].pc = "rt_ask_create"]_vars

\* C14: at most one worker executes the task at any time, at most one step is
\* running, and no step's tool is invoked twice.
C14_Sequential ==
  /\ Cardinality(LiveWorkers) <= 1
  /\ Cardinality({i \in DOMAIN steps : steps[i].status = "running"}) <= 1
  /\ \A s \in StepIds : tool_runs[s] <= 1

\* C15: while the task is running or waiting_approval its persisted
\* current_step never decreases.
C15_CurrentStepMonotone ==
  [][(task.status \in {"running", "waiting_approval"}
      /\ task'.status \in {"running", "waiting_approval"})
       => task'.current_step >= task.current_step]_vars

\* C16: the task never has more than 25 step rows once a patch has been
\* applied.
C16_PlanSizeCap == patches >= 1 => Len(steps) <= max_total_steps

\* C17: over the whole life of the task the Critic is invoked at most
\* max_critic_iters times, and a task whose third verdict asked for a fix
\* has failed once no worker is left.
C17_CriticCap ==
  /\ critic_calls <= max_critic_iters
  /\ (critic_calls = max_critic_iters /\ env.verdicts = {"fix"} /\ AllIdle)
       => task.status = "failed"

\* The worker is handling the exception of run_tool.
Failing(w) == workers[w].pc \in {"rt_tool_fail", "rt_fail_chk", "rt_fail_set"}
Moves(w) == workers'[w] # workers[w]

\* What a worker does from run_tool's exception on, but for the task's status
\* at its exit: a tool that is not registered raises; the step is marked
\* failed with the exception as error; the worker calls no tool again and
\* goes to no other step.
ToolFailureHandled(w) ==
  /\ (workers[w].pc = "rt_tool" /\ Moves(w) /\ ~registered(CurStep(w).tool))
       => workers'[w].pc = "rt_tool_fail"
  /\ (workers[w].pc = "rt_tool_fail" /\ Moves(w) /\ StepExists(CurStep(w).id))
       => /\ \E i \in DOMAIN steps' :
               /\ steps'[i].id = CurStep(w).id
               /\ steps'[i].status = "failed" /\ steps'[i].error = "tool"
  /\ (Failing(w) /\ Moves(w))
       => /\ tool_runs' = tool_runs
          /\ workers'[w].pc \in {"rt_fail_chk", "rt_fail_set", "idle"}
          /\ workers'[w].pc # "idle" => workers'[w].idx = workers[w].idx

\* C18 as stated: when run_tool raises the step becomes failed, the tool is
\* not retried, the worker executes no later step, and the worker leaves the
\* task failed.
C18_ToolFailureFailsTask ==
  [][\A w \in WorkerIds :
       /\ ToolFailureHandled(w)
       /\ (Failing(w) /\ workers'[w].pc = "idle")
            => (task'.status = "failed" /\ task'.error = "tool")]_vars

\* C18 amended: the same, and the worker leaves the task failed unless it
\* finds it canceled, which it then leaves as it is.
C18_ToolFailure ==
  [][\A w \in WorkerIds :
       /\ ToolFailureHandled(w)
       /\ (Failing(w) /\ workers'[w].pc = "idle")
            => \/ task'.status = "failed" /\ task'.error = "tool"
               \/ task.status = "canceled" /\ task' = task]_vars

\* C18 witness: the first of two steps raised: it is failed after one call of
\* its tool, the task is failed, the second step was never started.
C18_Witness ==
  /\ AllIdle /\ calls = 0
  /\ task.status = "failed" /\ task.error = "tool"
  /\ Len(steps) = 2
  /\ steps[1].status = "failed" /\ steps[1].error = "tool" /\ tool_runs[steps[1].id] = 1
  /\ steps[2].status = "pending" /\ tool_runs[steps[2].id] = 0

\* The answer generate_plan validates: the first when it parses, else the repair.
UsedReply == IF env.replies[1].json THEN env.replies[1] ELSE env.replies[2]

\* The answer is a plan the spec accepts.
PlanAccepted ==
  LET r == UsedReply
  IN  /\ r.json
      /\ "steps" \in DOMAIN r.plan
      /\ r.plan.steps.list
      /\ r.plan.steps.items # <<>>
      /\ \A i \in DOMAIN r.plan.steps.items :
           LET s == r.plan.steps.items[i]
           IN  /\ {"tool", "args"} \subseteq DOMAIN s
               /\ env.allowed_tools # {} => s.tool \in env.allowed_tools

\* A plan is saved and steps exist only for an accepted answer.
OnlyAcceptedPlans == (task.plan \/ steps # <<>>) => PlanAccepted

\* A planning step makes one LLM call, and a second exactly when the first
\* answer does not parse.
OneRepair ==
  planner_calls' # planner_calls =>
    planner_calls' - planner_calls = (IF env.replies[1].json THEN 1 ELSE 2)

\* The planner ran on an answer the spec rejects and every worker has ended.
PlannerRefused == planner_calls > 0 /\ ~PlanAccepted /\ AllIdle

NothingRan == steps = <<>> /\ \A sid \in StepIds : tool_runs[sid] = 0

\* C19 as stated: only accepted plans are saved and inserted; one repair call
\* on a parse failure; on a validation or second parse failure the task becomes
\* failed and no step is inserted or executed.
C19_PlannerFailsTask ==
  /\ [](OnlyAcceptedPlans)
  /\ [][OneRepair]_vars
  /\ [](PlannerRefused => task.status = "failed" /\ NothingRan)

\* C19: as C19_PlannerFailsTask, except that a task canceled while the
\* planner runs stays canceled instead of becoming failed.
C19_PlannerValidation ==
  /\ [](OnlyAcceptedPlans)
  /\ [][OneRepair]_vars
  /\ [](PlannerRefused => task.status \in {"failed", "canceled"} /\ NothingRan)

\* Both answers failed to parse: two LLM calls, the task failed, no step.
C19_Witness ==
  /\ ~env.replies[1].json /\ ~env.replies[2].json
  /\ planner_calls = 2
  /\ AllIdle
  /\ task.status = "failed"
  /\ steps = <<>>

\* C20: agent-loop resume is idempotent: approving again the approval whose
\* resume has completed leaves the status, error and output_path of a
\* succeeded task as they are.
C20_ResumeIdempotent ==
  [][\A sid \in StepIds :
       (/\ task.backend = "uak"
        /\ task.status = "succeeded"
        /\ StepExists(sid)
        /\ Decided(sid, "approve")
        /\ api_approve(sid, "approve"))
       => (/\ task'.status = task.status
           /\ task'.error = task.error
           /\ task'.output_path = task.output_path)]_vars

\* C21: the seq of an appended event_log row is greater than the seq of every
\* row appended earlier for its task, with several threads appending and
\* other tasks' rows deleted.
C21_SeqMonotonic ==
  [][\A r \in event_log' \ event_log : r.seq > task_ids[r.task_id].last_seq]_vars

\* A row of a live task carries the rowid a deleted task's last row had.
C21_Witness ==
  \E t1, t2 \in TaskIds :
    /\ Live(t1)
    /\ task_ids[t2].row = "deleted"
    /\ \E r \in event_log : r.task_id = t1 /\ r.seq = task_ids[t2].last_seq
    /\ Cardinality({r \in event_log : r.task_id = t1}) >= 2

\* The client's second call returns.
SecondPage == reader.pc = "paged" /\ reader'.pc = "done"

\* The second page holds no row of the first, is ascending, and leaves out
\* no row of the task after the cursor but those beyond its own last row.
NextPageRight ==
  LET p1 == reader.page1
      p2 == reader'.page2
      rows == {r.seq : r \in {x \in event_log : x.task_id = reader.task /\ x.seq > reader.cursor}}
  IN  /\ Range(p2) \cap Range(p1) = {}
      /\ \A i, j \in DOMAIN p2 : i < j => p2[i] < p2[j]
      /\ \A q \in rows \ Range(p2) : p2 # <<>> /\ q > p2[Len(p2)]

\* C22 as stated: events(after=X) followed by events(after=last_returned_seq)
\* returns no row of the first page, ascending, skipping no later row, for any
\* cursor, limit and tail value.
C22_Pagination == [][SecondPage => NextPageRight]_vars

\* C22: as C22_Pagination, for a second call made without tail.
C22_PaginationNoTail == [][SecondPage /\ ~reader'.tail => NextPageRight]_vars

\* Both pages hold rows, and the second holds a row appended after the first
\* call.
C22_Witness ==
  /\ reader.pc = "done"
  /\ ~reader.tail
  /\ reader.page1 # <<>>
  /\ \E q \in Range(reader.page2) : q \notin reader.log1

\* C23: an event of type task_update or step_update is in a subscriber's
\* queue, or was emitted at all, only for a write the store has committed; a
\* write that failed is never emitted.
C23_EmitAfterCommit ==
  /\ \A s \in SubIds : \A i \in DOMAIN bus[s].q :
       bus[s].q[i].type \in {"task_update", "step_update"}
         => changes[bus[s].q[i].change].committed
  /\ \A c \in DOMAIN changes : changes[c].emitted => changes[c].committed

\* A subscriber holds the event of a committed update while another update's
\* write has failed and its caller has the exception.
C23_Witness ==
  /\ \E s \in SubIds : \E i \in DOMAIN bus[s].q : bus[s].q[i].type = "step_update"
  /\ \E c \in DOMAIN changes :
       ~changes[c].committed /\ changes[c].returned /\ ~changes[c].emitted

\* C24: every committed change of a task (field update, step update, applied
\* patch) has its event_log row once the call that made it has returned.
C24_ChangeLogged ==
  \A c \in DOMAIN changes :
    (changes[c].committed /\ changes[c].returned) => changes[c].logged

\* The events the bounded model can emit: one per task made, one per change.
BusLoad == MaxTasks + MaxChanges

\* C25: a subscriber's queue is bounded: it never holds all of BusLoad events,
\* a stream that takes nothing loses some.
C25_BoundedQueue == \A s \in SubIds : Len(bus[s].q) < BusLoad


\* C30: Cron.next_after(t) returns the least whole minute u later than t
\* without its seconds at which the expression matches, no later than the
\* lookahead allows, and raises CronError only when there is no such minute;
\* for '* * * * *' it returns the next minute.
Truncated == cron_call.after.min
LastCandidate == Truncated + max_lookahead_days * DayMinutes
C30_NextAfter ==
  /\ cron_call.pc = "returned" =>
       LET u == cron_call.result.t
       IN  /\ u > Truncated
           /\ u * 60 <= next_after_end(cron_call.after)
           /\ matches(parse(cron_call.expr), u)
           /\ \A v \in (Truncated + 1)..(u - 1) : ~matches(parse(cron_call.expr), v)
  /\ cron_call.pc = "raised" /\ parse(cron_call.expr).err = "none" =>
       /\ cron_call.result.kind = "CronError"
       /\ \A v \in (Truncated + 1)..LastCandidate : ~matches(parse(cron_call.expr), v)
  /\ cron_call.expr = StarExpr /\ cron_call.pc # "scan" =>
       cron_call.pc = "returned" /\ cron_call.result.t = Truncated + 1

\* A Sunday was found for day-of-week 7 after a scan over other days.
C30_Witness ==
  /\ cron_call.pc = "returned"
  /\ cron_call.expr = SundayMidnight
  /\ cron_call.result.t > Truncated + DayMinutes
  /\ DateTime(cron_call.result.t).weekday = 6

\* The tasks tick_once made for schedule id at minute m
TasksAt(tasks, id, m) == {k \in DOMAIN tasks : tasks[k].schedule = id /\ tasks[k].at = m}

\* A tick_once of thread th ends in this step.
TickEnds(th) == sched[th].pc # "wait" /\ sched'[th].pc = "wait"

\* C26: in one tick_once every enabled schedule whose next_run_at <= now gets
\* exactly one new task, with goal payload.goal or the default; afterwards its
\* last_run_at is now and its next_run_at is later than now, so it does not
\* fire again for the same minute.
Due(row, m) == row.next_run_at # NULL /\ row.next_run_at <= m
C26_Materialization ==
  [][\A th \in SchedIds : TickEnds(th) =>
       \A k \in DOMAIN sched[th].rows :
         LET row == sched[th].rows[k]
             m == sched[th].now
         IN  Due(row, m) =>
               /\ Cardinality(TasksAt(sched_tasks', row.id, m)) = 1
               /\ \A j \in TasksAt(sched_tasks', row.id, m) :
                    sched_tasks'[j].goal = IF row.goal # "" THEN row.goal ELSE "Scheduled run"
               /\ schedules'[row.id].last_run_at = m
               /\ schedules'[row.id].next_run_at > m]_vars

\* C27: the tick after an enabled '*/1 * * * *' schedule without next_run_at
\* was inserted makes a task for it and sets last_run_at and next_run_at.
C27_FirstTickFires ==
  \A th \in SchedIds : SchedAt(th, "wait") =>
    \A k \in DOMAIN sched[th].rows :
      LET row == sched[th].rows[k]
      IN  row.cron_expr = EveryMinute /\ row.next_run_at = NULL =>
            /\ TasksAt(sched_tasks, row.id, sched[th].now) # {}
            /\ schedules[row.id].last_run_at = sched[th].now
            /\ schedules[row.id].next_run_at > sched[th].now

\* C28: a tick_once disables every enabled schedule whose expression is
\* invalid, makes no task for it, and still handles every other schedule.
Handled(row, m) ==
  IF row.next_run_at = NULL
  THEN schedules[row.id].next_run_at # NULL \/ ~schedules[row.id].enabled
  ELSE Due(row, m) => TasksAt(sched_tasks, row.id, m) # {}
C28_InvalidCronDisabled ==
  \A th \in SchedIds : SchedAt(th, "wait") =>
    \A k \in DOMAIN sched[th].rows :
      LET row == sched[th].rows[k]
      IN  row.cron_expr \in InvalidExprs =>
            /\ ~schedules[row.id].enabled
            /\ \A j \in DOMAIN sched_tasks : sched_tasks[j].schedule # row.id
            /\ \A o \in DOMAIN sched[th].rows : Handled(sched[th].rows[o], sched[th].now)

\* C29: whatever the start_scheduler and stop_scheduler calls, at most one
\* scheduler thread is inside tick_once at any time.
InTick(th) ==
  /\ sched[th].state = "alive"
  /\ sched[th].pc \in {"sch", "trigger", "last", "compute", "scan", "store", "disable"}
C29_NoOverlap == Cardinality({th \in SchedIds : InTick(th)}) <= 1

\* C31: a task that was made is listed; DELETE removes its tasks row and with
\* it all its steps, approvals and event_log rows; DELETE of a task that is
\* not there (deleted before, or never made) answers ok and changes nothing.
RowsOf(t) ==
  {c \in children : c.task_id = t} \cup {[table |-> "event_log", seq |-> e.seq] :
                                          e \in {x \in event_log : x.task_id = t}}
C31_DeleteRoundTrip ==
  [][\A t \in TaskIds :
       /\ (\E u \in UpdaterIds : create_task(u, t)) => Live(t)'
       /\ \A locked \in Contention, fault \in BOOLEAN :
            last_write'.kind = "task_delete" /\ api_delete_task(t, locked, fault) =>
              IF Live(t)
              THEN last_write'.status = 200 => ~Live(t)' /\ RowsOf(t)' = {}
              ELSE /\ last_write'.status = 200
                   /\ UNCHANGED <<task_ids, event_log, children>>]_vars

\* A task with a step, an approval and an event was deleted, and then deleted again.
C31_Witness ==
  /\ \E t \in TaskIds : task_ids[t].row = "deleted" /\ task_ids[t].last_seq > 0
  /\ last_write = [NoWrite EXCEPT !.kind = "task_delete", !.status = 200]
  /\ children # {}

\* C34: a write behind a user-visible change (task update, step update, event
\* append, task delete) that meets a busy store is tried again, up to
\* delete_attempts times, before the error is surfaced; an error that is not
\* contention is surfaced at the attempt that met it.
C34_WriteRetry ==
  /\ last_write.attempts <= delete_attempts
  /\ last_write.attempts > 0 => last_write.committed \/ last_write.raised # "none"
  /\ last_write.raised = "busy" => last_write.attempts = delete_attempts
  /\ last_write.raised = "error" => last_write.attempts = last_write.busy + 1

\* C32: no two steps rows of the task have the same idx, after the initial
\* plan, Executor patches, Critic fix steps and the agent loop's step rows.
C32_UniqueIdx ==
  \A i, j \in DOMAIN steps : i # j => steps[i].idx # steps[j].idx

\* C33: every step has at most one approvals row with status pending,
\* whatever the worker launches, pauses and approve_step calls.
PendingOf(sid) ==
  {k \in DOMAIN approvals : approvals[k].step_id = sid /\ approvals[k].status = "pending"}
C33_OnePending == \A sid \in StepIds : Cardinality(PendingOf(sid)) <= 1

\* C35: whenever the classic engine calls the Critic, and so whenever a
\* review makes the task succeeded, every steps row of the task has status
\* succeeded, also after patches that remove or replace steps.
AllSucceeded == \A i \in DOMAIN steps : steps[i].status = "succeeded"
C35_CriticAfterAllSteps == [][critic_calls' # critic_calls => AllSucceeded]_vars

\* C36 as stated: a classic worker that returns leaves the task
\* waiting_approval, succeeded, failed or canceled, and an exception raised
\* inside it, in patching too, is taken to the handler at the worker entry.
ExitStatuses == {"waiting_approval", "succeeded", "failed", "canceled"}
Returns(w) ==
  /\ workers[w].kind = "classic"
  /\ workers'[w].pc = "idle"
  /\ restarts' = restarts
ExitsWell == \A w \in WorkerIds : Returns(w) => task'.status \in ExitStatuses
HandlerFails ==
  \A w \in WorkerIds :
    workers[w].pc \in {"rt_exc_chk", "rt_exc_set"} /\ Returns(w)
      => task'.status \in {"failed", "canceled"}
PatchExcLeaves(w) == workers[w].pc = "rt_patch_exc" /\ workers'[w].pc # "rt_patch_exc"
Invokes(w) == workers[w].pc = "rt_tool" /\ tool_runs' # tool_runs
C37_AllowList ==
  [][\A w \in WorkerIds :
       Invokes(w) /\ env.allowed_tools # {} => CurStep(w).tool \in env.allowed_tools]_vars

\* C38: an ask-once grant of a scope exists only while the task has an
\* approval row with status approved for a step whose tool maps to that
\* scope; and approve_step for a step that has no pending approval row
\* records no grant and launches no worker.
Backed(scope) ==
  \E a \in DOMAIN approvals :
    /\ approvals[a].status = "approved"
    /\ StepExists(approvals[a].step_id)
    /\ scope_for_tool(StepRow(approvals[a].step_id).tool) = scope
ApprovesUnasked(sid) == PendingOf(sid) = {} /\ api_approve(sid, "approve")
C38_GrantsFromApprovals ==
  [][/\ \A scope \in grants' : Backed(scope)'
     /\ \A sid \in StepIds :
          StepExists(sid) /\ calls' # calls /\ ApprovesUnasked(sid)
            => grants' = grants /\ workers' = workers]_vars

\* C39: a worker that loads the steps of a task whose plan is persisted
\* never finds the step list empty, and the Critic is never called before
\* any step of the task was executed, also when the process died or the task
\* was canceled during planning.
LoadsSteps(w) == workers[w].pc = "rt_iter" /\ workers'[w].pc = "rt_loop"
C39_PlanHasSteps ==
  [][/\ \A w \in WorkerIds : LoadsSteps(w) /\ task.plan => workers'[w].steps # <<>>
     /\ critic_calls' # critic_calls => \E sid \in DOMAIN tool_runs : tool_runs[sid] > 0]_vars

\* C40 as stated: once unsubscribe(q) has returned no event is put on q,
\* whatever emit calls run beside it; and an emit call that returns has put
\* its event exactly once on every queue subscribed during the whole call.
OncePerQueue ==
  \A e \in UpdaterIds :
    /\ \A q \in SubIds : emitters'[e].puts[q] <= 1
    /\ emitters[e].pc = "put" /\ emitters'[e].pc = "idle"
         => \A q \in emitters[e].held : emitters[e].puts[q] = 1
C40_NoPutAfterUnsubscribe ==
  [][OncePerQueue /\ \A q \in SubIds : queues'[q].late = 0]_vars

\* C40: once unsubscribe(q) has returned, no emit call that begins afterwards
\* puts an event on q, and a call that was under way at that moment puts at
\* most its one event on q; and an emit call that returns has put its event
\* exactly once on every queue subscribed during the whole call.
PutsLate(e, q) ==
  /\ queues[q].left
  /\ emitters[e].pc = "put" /\ emitters[e].subs # <<>> /\ Head(emitters[e].subs) = q
  /\ emitters'[e].puts[q] > emitters[e].puts[q]
C40_FanOut ==
  [][/\ OncePerQueue
     /\ \A e \in UpdaterIds, q \in SubIds : PutsLate(e, q) => e \in queues[q].inflight]_vars

\* a call under way when a stream closed has returned: it put its event on
\* the closed stream's queue and once on the queue of the stream still open
C40_Witness ==
  /\ \E q \in SubIds : queues[q].left /\ queues[q].late = 1
  /\ \E q \in SubIds : queues[q].made /\ ~queues[q].left /\ Len(queues[q].items) = emitted
  /\ emitted > 0
  /\ InEmit = {}
====
